---- MODULE Spec2Model ----
(***************************************************************************)
(* Advent of Code 2020 solutions (src/src/day_NN.rs) as state machines.    *)
(* Every day is a pure computation over a parsed input: each one is given  *)
(* its own specification, whose Init draws the input from a bounded family *)
(* and whose actions run the day's functions.                              *)
(*                                                                         *)
(*   SpecParse   day 20, parse / Tile::from_str on input text              *)
(*   SpecGrid    day 20, Grid<T>: transform                                *)
(*   SpecTile    day 20, Tile::border_masks                                *)
(*   Spec        day 20, part_1 and part_2 on a tile list                  *)
(*   SpecDay08   day 8, part_1 step by step and part_2 on a program        *)
(*   SpecDay11   day 11, Simulation::tick until nothing changes            *)
(*   SpecDay18   day 18, Expression::evaluate under both rule sets         *)
(*   SpecDay23   day 23, part_1 (VecDeque) and crab_cups (IndexList)       *)
(*   SpecGridCalls  day 20, Grid<T>: index, index_mut, splice, transform   *)
(*   SpecMonsters   day 20, count_monsters round by round                  *)
(*   SpecSearch     day 20, place_tiles and orient_tiles cell by cell      *)
(*   SpecDay16   day 16, ValueRange::collapse_overlapping_ranges           *)
(*   SpecDay22   day 22, play_simple_game and play_recursive_game          *)
(*                                                                         *)
(* Rust values are modelled as follows.  Vec<T> and slices are sequences;  *)
(* Rust indices are 0-based and are kept 0-based (At reads, SetAt writes). *)
(* A panic (unwrap on None, index out of range, unimplemented!) is the      *)
(* value Panic.  Where an arithmetic overflow panics in a debug build and  *)
(* wraps in a release build, and the wrapped value is not itself followed  *)
(* by a panic, both outcomes are modelled, each by an action of its own.   *)
(* Result<T, E> is Ok(v) or Err(e).                                        *)
(***************************************************************************)
EXTENDS Integers, Sequences, FiniteSets, TLC

VARIABLES
    \* SpecParse
    input,          \* the text given to parse
    parsed,         \* NotRun, or what parse(input) produced
    \* SpecGrid
    grid0,          \* the Grid the run started from
    grid,           \* the Grid now (or Panic)
    ops,            \* the transform calls made so far, oldest first
    \* SpecTile
    tile,           \* a Tile
    masks,          \* NotRun, or tile.border_masks()
    \* Spec (part_1 / part_2)
    pc,             \* position in part_1 / part_2
    tiles,          \* the tile list both parts are called with
    layout,         \* how the input was cut: layout[i] = <<col, row>> of tiles[i] (ghost)
    side,           \* the side of the square of cells the input was cut from (ghost)
    frames,         \* get_frames_and_neighbors(tiles).0
    neighbors,      \* get_frames_and_neighbors(tiles).1
    placement,      \* place_tiles(&neighbors, size)
    orientation,    \* orient_tiles(&placement, &frames)
    large_grid,     \* construct_combiend_grid(...), as part_2 holds it
    large_grid_pixels, \* part_2's count of On pixels
    monsters,       \* count_monsters(large_grid)
    result1,        \* what part_1 returned
    result2,        \* what part_2 returned
    \* SpecDay08 (day_08.rs)
    instructions,   \* the program both parts are called with
    at08,           \* position: "part_1", "part_2", "returned"
    ip,             \* part_1: the instruction pointer
    accumulator,    \* part_1: the accumulator
    visited,        \* part_1: visited[ip], one flag per instruction
    halted1,        \* NotRun, or what part_1 returned
    halted2,        \* NotRun, or what part_2 returned
    \* SpecDay11 (day_11.rs)
    seat_layout,    \* the Grid<Tile> part_1 / part_2 is called with
    strategy,       \* NearIntolerant (part_1) or FarTolerant (part_2)
    sim,            \* the Simulation: state and counts
    before,         \* sim.state as it was before the last tick (ghost)
    any_change,     \* NotRun, or what the last tick returned
    at11,           \* position: "loop", "count", "returned"
    occupied,       \* NotRun, or what the part returned
    \* SpecDay23 (day_23.rs)
    labels,         \* the input: nine bytes
    at23,           \* position: "part_1", "crab_cups", "returned"
    turn,           \* the moves made by the function running
    cups,           \* part_1: the VecDeque; crab_cups: the IndexList
    current,        \* crab_cups: the index of the current cup
    text1,          \* NotRun, or the String part_1 returned
    circle,         \* NotRun, or the IndexList crab_cups returned
    \* SpecDay18 (day_18.rs)
    tokens,         \* the tokens of one Expression
    flat,           \* NotRun, or evaluate::<FlatRules>()
    nested,         \* NotRun, or evaluate::<TimesBeforePlus>()
    \* SpecDay16 (day_16.rs)
    given_ranges,   \* the Vec<ValueRange> collapse_overlapping_ranges is called with
    ranges,         \* NotRun, or the Vec after the call (or Panic)
    \* SpecDay22 (day_22.rs)
    initial_state,  \* the State part_1 / part_2 is called with
    played,         \* "simple" (part_1) or "recursive" (part_2)
    games,          \* the games being played, outermost first, each with its locals
    at22,           \* position: "playing", "returned"
    winner          \* NotRun, or the Player the outermost game returned

varsParse == << input, parsed >>
varsGrid == << grid0, grid, ops >>
varsTile == << tile, masks >>
varsPuzzle == << pc, tiles, layout, side, frames, neighbors, placement, orientation,
                 large_grid, large_grid_pixels, monsters, result1, result2 >>
varsDay08 == << instructions, at08, ip, accumulator, visited, halted1, halted2 >>
varsDay11 == << seat_layout, strategy, sim, before, any_change, at11, occupied >>
varsDay23 == << labels, at23, turn, cups, current, text1, circle >>
varsDay18 == << tokens, flat, nested >>
varsDay16 == << given_ranges, ranges >>
varsDay22 == << initial_state, played, games, at22, winner >>
varsDay20 == << varsParse, varsGrid, varsTile, varsPuzzle >>
vars == << varsDay20, varsDay08, varsDay11, varsDay23, varsDay18, varsDay16, varsDay22 >>

----------------------------------------------------------------------------
(* Values shared by all days. *)

NotRun == [run |-> FALSE]
\* What a function returned, for the variables that start as NotRun.
Returned(v) == [run |-> TRUE, v |-> v]
Idle == "Idle"
Panic == [panic |-> TRUE]
Ok(v) == [ok |-> TRUE, v |-> v]
Err(e) == [ok |-> FALSE, e |-> e]
None == [some |-> FALSE]
Some(v) == [some |-> TRUE, v |-> v]

IsPanic(r) == r = Panic
IsOk(r) == r # Panic /\ r.ok

At(s, i) == s[i + 1]
SetAt(s, i, v) == [s EXCEPT ![i + 1] = v]
InRange(s, i) == i >= 0 /\ i < Len(s)
Contains(s, v) == \E i \in 1..Len(s) : s[i] = v
Reverse(s) == [i \in 1..Len(s) |-> s[Len(s) + 1 - i]]
Min(S) == CHOOSE m \in S : \A n \in S : m <= n
Max(S) == CHOOSE m \in S : \A n \in S : m >= n

\* Iterator::find over a sequence whose matching positions are `hits`.
FindAt(s, hits) == IF hits = {} THEN None ELSE Some(s[Min(hits)])

\* The elements of a set of integers in ascending order.
Ascending(S) ==
    [n \in 1..Cardinality(S) |-> CHOOSE i \in S : Cardinality({j \in S : j < i}) = n - 1]

----------------------------------------------------------------------------
(* day_20.rs: Grid<T> *)

\* Pixel: the discriminants of the enum
On == 1
Off == 0

\* A faulty constructor that allocates width * width values.
Grid_new_WidthSquared(width, height, default) ==
    [data |-> [i \in 1..(width * width) |-> default], width |-> width, height |-> height]

\* Grid::new: width * height default values.
Grid_new(width, height, default) ==
    [data |-> [i \in 1..(width * height) |-> default], width |-> width, height |-> height]

\* Index / IndexMut: ix = x + self.width * y, then the Vec's own bounds check on ix.
Ix(g, x, y) == x + g.width * y
IndexPanics(g, x, y) == ~InRange(g.data, Ix(g, x, y))
Index(g, x, y) == At(g.data, Ix(g, x, y))
IndexSet(g, x, y, v) == [g EXCEPT !.data = SetAt(g.data, Ix(g, x, y), v)]

\* A faulty range test that leaves out the source's height.
SplicePanics_NoSourceHeight(g, dest_pos, source, source_pos, size) ==
    \/ dest_pos[1] + size[1] > g.width
    \/ dest_pos[2] + size[2] > g.height
    \/ source_pos[1] + size[1] > source.width

\* Grid::splice, lines 45-49: the range test that panics.
SplicePanics(g, dest_pos, source, source_pos, size) ==
    \/ dest_pos[1] + size[1] > g.width
    \/ dest_pos[2] + size[2] > g.height
    \/ source_pos[1] + size[1] > source.width
    \/ source_pos[2] + size[2] > source.height

\* A faulty copy that reads the source from its origin, not from source_pos.
SpliceRows_FromOrigin(g, dest_pos, source, source_pos, size) ==
    [g EXCEPT !.data =
        [i \in 1..Len(g.data) |->
            LET y == IF g.width > 0 THEN (i - 1) \div g.width ELSE 0
                dx == (i - 1) - (dest_pos[1] + g.width * y)
            IN  IF /\ g.width > 0
                   /\ y >= dest_pos[2] /\ y < dest_pos[2] + size[2]
                   /\ dx >= 0 /\ dx < size[1]
                THEN At(source.data, source.width * (y - dest_pos[2]) + dx)
                ELSE g.data[i]]]

\* Grid::splice, lines 60-66: row y of the rectangle is copied as one slice.
SpliceRows(g, dest_pos, source, source_pos, size) ==
    [g EXCEPT !.data =
        [i \in 1..Len(g.data) |->
            LET y == IF g.width > 0 THEN (i - 1) \div g.width ELSE 0
                dx == (i - 1) - (dest_pos[1] + g.width * y)
            IN  IF /\ g.width > 0
                   /\ y >= dest_pos[2] /\ y < dest_pos[2] + size[2]
                   /\ dx >= 0 /\ dx < size[1]
                THEN At(source.data,
                        source_pos[1] + source.width * (source_pos[2] + (y - dest_pos[2])) + dx)
                ELSE g.data[i]]]

splice(g, dest_pos, source, source_pos, size) ==
    IF SplicePanics(g, dest_pos, source, source_pos, size)
    THEN Panic
    ELSE SpliceRows(g, dest_pos, source, source_pos, size)

\* lines 74-76: every chunk of `width` elements reversed in place.
ReverseRows(data, width) ==
    [i \in 1..Len(data) |->
        LET row == (i - 1) \div width
            lo == row * width
            hi == IF lo + width < Len(data) THEN lo + width ELSE Len(data)
        IN  data[lo + (hi - (i - 1))]]

\* A faulty swap loop that copies where it should exchange: the cells right of
\* the diagonal are written, those below it are left as they were.
SwapRow_CopyOnly(data, width, y) ==
    [i \in 1..Len(data) |->
        LET cx == (i - 1) % width
            cy == (i - 1) \div width
        IN  IF cy = y /\ cx > y THEN data[y + cx * width + 1] ELSE data[i]]

\* lines 84-86: for one y, the swaps of x + y * width with y + x * width for
\* x in y + 1..width.  They touch pairwise different cells.
SwapRow(data, width, y) ==
    [i \in 1..Len(data) |->
        LET cx == (i - 1) % width
            cy == (i - 1) \div width
        IN  IF cy = y /\ cx > y THEN data[y + cx * width + 1]
            ELSE IF cx = y /\ cy > y THEN data[cy + y * width + 1]
            ELSE data[i]]

\* lines 83-87: for y in 0..height
RECURSIVE SwapLoop(_, _, _)
SwapLoop(data, width, y) ==
    IF y >= width THEN data ELSE SwapLoop(SwapRow(data, width, y), width, y + 1)

Transpose(g) == [g EXCEPT !.data = SwapLoop(g.data, g.width, 0)]

\* A faulty transform that reverses the rows whenever mirror_x is set, also
\* when the reversal of the whole data for mirror_y has done so already.
transform_RowsOnMirrorX(g, mirror_x, mirror_y, transpose) ==
    IF mirror_x /\ g.width = 0 THEN Panic
    ELSE
        LET d1 == IF mirror_x THEN ReverseRows(g.data, g.width) ELSE g.data
            d2 == IF mirror_y THEN Reverse(d1) ELSE d1
            g2 == [g EXCEPT !.data = d2]
        IN  IF ~transpose THEN g2
            ELSE IF g.width = g.height THEN Transpose(g2)
            ELSE Panic

\* Grid::transform.  chunks_mut(0) panics (a grid of width 0); a transpose of a
\* grid that is not square is unimplemented!().
transform(g, mirror_x, mirror_y, transpose) ==
    IF (mirror_x # mirror_y) /\ g.width = 0 THEN Panic
    ELSE
        LET d1 == IF mirror_x # mirror_y THEN ReverseRows(g.data, g.width) ELSE g.data
            d2 == IF mirror_y THEN Reverse(d1) ELSE d1
            g2 == [g EXCEPT !.data = d2]
        IN  IF ~transpose THEN g2
            ELSE IF g.width = g.height THEN Transpose(g2)
            ELSE Panic

----------------------------------------------------------------------------
(* day_20.rs: Tile, Tile::border_masks *)

\* The masks are u16 (line 165): `1 << x` has 16 bits.
ShiftWidth == 16

\* `1 << x` with x >= 16 overflows: a debug build panics there, a release build
\* shifts by x % 16.
ShiftOverflows(x) == x >= ShiftWidth

\* The sum of 2 ^ b over the bit numbers in `bits`.
RECURSIVE SumBits(_)
SumBits(bits) ==
    IF bits = {} THEN 0
    ELSE LET b == CHOOSE b \in bits : TRUE IN 2 ^ b + SumBits(bits \ {b})

\* masks[slot] |= 1 << e for every e in `exps`, the shifts taken as a release
\* build takes them.
OrBits(exps) == SumBits({e % ShiftWidth : e \in exps})

\* masks[slot] as the loops of lines 169-188 build it.
TopMask(g) == OrBits({x \in 0..(g.width - 1) : Index(g, x, 0) = On})

\* A faulty masks[1] that reads the top row in the direction of masks[0].
TopRevMask_Forward(g) == TopMask(g)

TopRevMask(g) == OrBits({g.width - 1 - x : x \in {x \in 0..(g.width - 1) : Index(g, x, 0) = On}})
BottomMask(g) == OrBits({x \in 0..(g.width - 1) : Index(g, x, g.height - 1) = On})
BottomRevMask(g) ==
    OrBits({g.width - 1 - x : x \in {x \in 0..(g.width - 1) : Index(g, x, g.height - 1) = On}})
\* A faulty masks[4] that counts the left column from the bottom.
LeftMask_FromBottom(g) ==
    OrBits({g.height - 1 - y : y \in {y \in 0..(g.height - 1) : Index(g, 0, y) = On}})

LeftMask(g) == OrBits({y \in 0..(g.height - 1) : Index(g, 0, y) = On})
LeftRevMask(g) == OrBits({g.height - 1 - y : y \in {y \in 0..(g.height - 1) : Index(g, 0, y) = On}})
RightMask(g) == OrBits({y \in 0..(g.height - 1) : Index(g, g.width - 1, y) = On})
RightRevMask(g) ==
    OrBits({g.height - 1 - y : y \in {y \in 0..(g.height - 1) : Index(g, g.width - 1, y) = On}})

\* Tile::border_masks: slots 0..7 of the returned array.
border_masks(t) ==
    << TopMask(t.grid), TopRevMask(t.grid), BottomMask(t.grid), BottomRevMask(t.grid),
       LeftMask(t.grid), LeftRevMask(t.grid), RightMask(t.grid), RightRevMask(t.grid) >>

\* Some shift of lines 171-186 overflows: an On pixel of the top or bottom row
\* at x with x or width - 1 - x above 15, or of the left or right column at y
\* with y or height - 1 - y above 15.
border_masks_overflows(t) ==
    LET g == t.grid IN
    \/ \E x \in 0..(g.width - 1) :
            /\ Index(g, x, 0) = On \/ Index(g, x, g.height - 1) = On
            /\ ShiftOverflows(x) \/ ShiftOverflows(g.width - 1 - x)
    \/ \E y \in 0..(g.height - 1) :
            /\ Index(g, 0, y) = On \/ Index(g, g.width - 1, y) = On
            /\ ShiftOverflows(y) \/ ShiftOverflows(g.height - 1 - y)

----------------------------------------------------------------------------
(* day_20.rs: Pixel::try_from, Tile::from_str, parse.  Text is a sequence *)
(* of one-character strings.                                               *)

SyntaxError == "SyntaxError"
InvalidNumber == "InvalidNumber"
NL == "\n"
CR == "\r"

Digits == << "0", "1", "2", "3", "4", "5", "6", "7", "8", "9" >>
IsDigit(c) == Contains(Digits, c)
DigitValue(c) == (CHOOSE i \in 1..10 : Digits[i] = c) - 1

\* Pixel::try_from
Pixel_try_from(value) ==
    IF value = "." THEN Ok(Off)
    ELSE IF value = "#" THEN Ok(On)
    ELSE Err(SyntaxError)

Slice(s, from, to) == [i \in 1..(to - from + 1) |-> s[from + i - 1]]

\* str::split("\n\n"): matches are taken left to right and do not overlap, so a
\* match starts at i iff s[i..i+1] is two newlines and the run of newlines
\* that ends just before i has even length.
NewlinesBefore(s, i) ==
    LET stop == {j \in 1..(i - 1) : s[j] # NL} IN
    IF stop = {} THEN i - 1 ELSE i - 1 - Max(stop)
SplitStarts(s) ==
    {i \in 1..(Len(s) - 1) : s[i] = NL /\ s[i + 1] = NL /\ NewlinesBefore(s, i) % 2 = 0}
split_blank(s) ==
    LET st == Ascending(SplitStarts(s))
        n == Len(st)
    IN  [j \in 1..(n + 1) |->
            Slice(s, IF j = 1 THEN 1 ELSE st[j - 1] + 2, IF j = n + 1 THEN Len(s) ELSE st[j] - 1)]

\* str::lines: split at every "\n", a final empty piece is dropped, and one
\* trailing "\r" of a line is dropped.
StripCR(l) == IF Len(l) > 0 /\ l[Len(l)] = CR THEN Slice(l, 1, Len(l) - 1) ELSE l
lines(s) ==
    LET nl == Ascending({i \in 1..Len(s) : s[i] = NL})
        n == Len(nl)
        pieces == [j \in 1..(n + 1) |->
                    Slice(s, IF j = 1 THEN 1 ELSE nl[j - 1] + 1, IF j = n + 1 THEN Len(s) ELSE nl[j] - 1)]
        kept == IF pieces[n + 1] = << >> THEN Slice(pieces, 1, n) ELSE pieces
    IN  [j \in 1..Len(kept) |-> StripCR(kept[j])]

\* lines 198-205: the header line to the id, or the error `?` returns.
TilePrefix == << "T", "i", "l", "e", " " >>
RECURSIVE DecimalValue(_)
DecimalValue(ds) ==
    IF ds = << >> THEN 0 ELSE 10 * DecimalValue(Slice(ds, 1, Len(ds) - 1)) + DigitValue(ds[Len(ds)])
parse_u64(s) ==
    LET ds == IF Len(s) > 0 /\ s[1] = "+" THEN Slice(s, 2, Len(s)) ELSE s IN
    IF ds # << >> /\ \A i \in 1..Len(ds) : IsDigit(ds[i])
    THEN Ok(DecimalValue(ds))
    ELSE Err(InvalidNumber)
parse_header(ls) ==
    IF ls = << >> THEN Err(SyntaxError)
    ELSE LET h == ls[1] IN
         IF ~(Len(h) >= 5 /\ Slice(h, 1, 5) = TilePrefix) THEN Err(SyntaxError)
         ELSE IF ~(Len(h) >= 6 /\ h[Len(h)] = ":") THEN Err(SyntaxError)
         ELSE parse_u64(Slice(h, 6, Len(h) - 1))

\* lines 211-213 for one line of text.  The value `ch.try_into()?` is
\* computed before grid[[x, y]] is indexed, so at one x a bad character
\* returns the error even where the index would have panicked; otherwise
\* whichever comes first in the line decides.  A cell is written by the one
\* x whose index it is.
FillRow(g, line, y) ==
    LET bad == {x \in 0..(Len(line) - 1) : ~Pixel_try_from(At(line, x)).ok}
        oob == {x \in 0..(Len(line) - 1) : IndexPanics(g, x, y)}
    IN  IF bad # {} /\ (oob = {} \/ Min(bad) <= Min(oob)) THEN Err(SyntaxError)
        ELSE IF oob # {} THEN Panic
        ELSE Ok([g EXCEPT !.data =
                    [i \in 1..Len(g.data) |->
                        LET x == (i - 1) - g.width * y IN
                        IF x >= 0 /\ x < Len(line) THEN Pixel_try_from(At(line, x)).v
                        ELSE g.data[i]]])

\* lines 210-214: for (y, line) in lines.enumerate()
RECURSIVE FillGrid(_, _, _)
FillGrid(g, rows, y) ==
    IF y >= Len(rows) THEN Ok(g)
    ELSE LET r == FillRow(g, At(rows, y), y) IN
         IF IsPanic(r) THEN Panic
         ELSE IF ~r.ok THEN r
         ELSE FillGrid(r.v, rows, y + 1)

\* Tile::from_str.  scan.next().unwrap() panics when no line follows the header.
Tile_from_str(s) ==
    LET ls == lines(s)
        id == parse_header(ls)
    IN  IF ~id.ok THEN id
        ELSE IF Len(ls) < 2 THEN Panic
        ELSE LET rows == Slice(ls, 2, Len(ls))
                 width == Len(rows[1])
                 height == 1 + (Len(rows) - 1)
                 g == FillGrid(Grid_new(width, height, Off), rows, 0)
             IN  IF IsPanic(g) THEN Panic
                 ELSE IF ~g.ok THEN g
                 ELSE Ok([id |-> id.v, grid |-> g.v])

\* parse: collect() into Result stops at the first tile that is an Err; a
\* panic in an earlier tile comes first.
RECURSIVE Collect(_, _, _)
Collect(parts, i, acc) ==
    IF i > Len(parts) THEN Ok(acc)
    ELSE LET t == Tile_from_str(parts[i]) IN
         IF IsPanic(t) THEN Panic
         ELSE IF ~t.ok THEN t
         ELSE Collect(parts, i + 1, Append(acc, t.v))

parse(s) == Collect(split_blank(s), 1, << >>)

EXAMPLE ==
    << "T", "i", "l", "e", " ", "2", "3", "1", "1", ":", "\n",
       ".", ".", "#", "#", ".", "#", ".", ".", "#", ".", "\n",
       "#", "#", ".", ".", "#", ".", ".", ".", ".", ".", "\n",
       "#", ".", ".", ".", "#", "#", ".", ".", "#", ".", "\n",
       "#", "#", "#", "#", ".", "#", ".", ".", ".", "#", "\n",
       "#", "#", ".", "#", "#", ".", "#", "#", "#", ".", "\n",
       "#", "#", ".", ".", ".", "#", ".", "#", "#", "#", "\n",
       ".", "#", ".", "#", ".", "#", ".", ".", "#", "#", "\n",
       ".", ".", "#", ".", ".", ".", ".", "#", ".", ".", "\n",
       "#", "#", "#", ".", ".", ".", "#", ".", "#", ".", "\n",
       ".", ".", "#", "#", "#", ".", ".", "#", "#", "#", "\n",
       "\n",
       "T", "i", "l", "e", " ", "1", "9", "5", "1", ":", "\n",
       "#", ".", "#", "#", ".", ".", ".", "#", "#", ".", "\n",
       "#", ".", "#", "#", "#", "#", ".", ".", ".", "#", "\n",
       ".", ".", ".", ".", ".", "#", ".", ".", "#", "#", "\n",
       "#", ".", ".", ".", "#", "#", "#", "#", "#", "#", "\n",
       ".", "#", "#", ".", "#", ".", ".", ".", ".", "#", "\n",
       ".", "#", "#", "#", ".", "#", "#", "#", "#", "#", "\n",
       "#", "#", "#", ".", "#", "#", ".", "#", "#", ".", "\n",
       ".", "#", "#", "#", ".", ".", ".", ".", "#", ".", "\n",
       ".", ".", "#", ".", "#", ".", ".", "#", ".", "#", "\n",
       "#", ".", ".", ".", "#", "#", ".", "#", ".", ".", "\n",
       "\n",
       "T", "i", "l", "e", " ", "1", "1", "7", "1", ":", "\n",
       "#", "#", "#", "#", ".", ".", ".", "#", "#", ".", "\n",
       "#", ".", ".", "#", "#", ".", "#", ".", ".", "#", "\n",
       "#", "#", ".", "#", ".", ".", "#", ".", "#", ".", "\n",
       ".", "#", "#", "#", ".", "#", "#", "#", "#", ".", "\n",
       ".", ".", "#", "#", "#", ".", "#", "#", "#", "#", "\n",
       ".", "#", "#", ".", ".", ".", ".", "#", "#", ".", "\n",
       ".", "#", ".", ".", ".", "#", "#", "#", "#", ".", "\n",
       "#", ".", "#", "#", ".", "#", "#", "#", "#", ".", "\n",
       "#", "#", "#", "#", ".", ".", "#", ".", ".", ".", "\n",
       ".", ".", ".", ".", ".", "#", "#", ".", ".", ".", "\n",
       "\n",
       "T", "i", "l", "e", " ", "1", "4", "2", "7", ":", "\n",
       "#", "#", "#", ".", "#", "#", ".", "#", ".", ".", "\n",
       ".", "#", ".", ".", "#", ".", "#", "#", ".", ".", "\n",
       ".", "#", ".", "#", "#", ".", "#", ".", ".", "#", "\n",
       "#", ".", "#", ".", "#", ".", "#", "#", ".", "#", "\n",
       ".", ".", ".", ".", "#", ".", ".", ".", "#", "#", "\n",
       ".", ".", ".", "#", "#", ".", ".", "#", "#", ".", "\n",
       ".", ".", ".", "#", ".", "#", "#", "#", "#", "#", "\n",
       ".", "#", ".", "#", "#", "#", "#", ".", "#", ".", "\n",
       ".", ".", "#", ".", ".", "#", "#", "#", ".", "#", "\n",
       ".", ".", "#", "#", ".", "#", ".", ".", "#", ".", "\n",
       "\n",
       "T", "i", "l", "e", " ", "1", "4", "8", "9", ":", "\n",
       "#", "#", ".", "#", ".", "#", ".", ".", ".", ".", "\n",
       ".", ".", "#", "#", ".", ".", ".", "#", ".", ".", "\n",
       ".", "#", "#", ".", ".", "#", "#", ".", ".", ".", "\n",
       ".", ".", "#", ".", ".", ".", "#", ".", ".", ".", "\n",
       "#", "#", "#", "#", "#", ".", ".", ".", "#", ".", "\n",
       "#", ".", ".", "#", ".", "#", ".", "#", ".", "#", "\n",
       ".", ".", ".", "#", ".", "#", ".", "#", ".", ".", "\n",
       "#", "#", ".", "#", ".", ".", ".", "#", "#", ".", "\n",
       ".", ".", "#", "#", ".", "#", "#", ".", "#", "#", "\n",
       "#", "#", "#", ".", "#", "#", ".", "#", ".", ".", "\n",
       "\n",
       "T", "i", "l", "e", " ", "2", "4", "7", "3", ":", "\n",
       "#", ".", ".", ".", ".", "#", "#", "#", "#", ".", "\n",
       "#", ".", ".", "#", ".", "#", "#", ".", ".", ".", "\n",
       "#", ".", "#", "#", ".", ".", "#", ".", ".", ".", "\n",
       "#", "#", "#", "#", "#", "#", ".", "#", ".", "#", "\n",
       ".", "#", ".", ".", ".", "#", ".", "#", ".", "#", "\n",
       ".", "#", "#", "#", "#", "#", "#", "#", "#", "#", "\n",
       ".", "#", "#", "#", ".", "#", ".", ".", "#", ".", "\n",
       "#", "#", "#", "#", "#", "#", "#", "#", ".", "#", "\n",
       "#", "#", ".", ".", ".", "#", "#", ".", "#", ".", "\n",
       ".", ".", "#", "#", "#", ".", "#", ".", "#", ".", "\n",
       "\n",
       "T", "i", "l", "e", " ", "2", "9", "7", "1", ":", "\n",
       ".", ".", "#", ".", "#", ".", ".", ".", ".", "#", "\n",
       "#", ".", ".", ".", "#", "#", "#", ".", ".", ".", "\n",
       "#", ".", "#", ".", "#", "#", "#", ".", ".", ".", "\n",
       "#", "#", ".", "#", "#", ".", ".", "#", ".", ".", "\n",
       ".", "#", "#", "#", "#", "#", ".", ".", "#", "#", "\n",
       ".", "#", ".", ".", "#", "#", "#", "#", ".", "#", "\n",
       "#", ".", ".", "#", ".", "#", ".", ".", "#", ".", "\n",
       ".", ".", "#", "#", "#", "#", ".", "#", "#", "#", "\n",
       ".", ".", "#", ".", "#", ".", "#", "#", "#", ".", "\n",
       ".", ".", ".", "#", ".", "#", ".", "#", ".", "#", "\n",
       "\n",
       "T", "i", "l", "e", " ", "2", "7", "2", "9", ":", "\n",
       ".", ".", ".", "#", ".", "#", ".", "#", ".", "#", "\n",
       "#", "#", "#", "#", ".", "#", ".", ".", ".", ".", "\n",
       ".", ".", "#", ".", "#", ".", ".", ".", ".", ".", "\n",
       ".", ".", ".", ".", "#", ".", ".", "#", ".", "#", "\n",
       ".", "#", "#", ".", ".", "#", "#", ".", "#", ".", "\n",
       ".", "#", ".", "#", "#", "#", "#", ".", ".", ".", "\n",
       "#", "#", "#", "#", ".", "#", ".", "#", ".", ".", "\n",
       "#", "#", ".", "#", "#", "#", "#", ".", ".", ".", "\n",
       "#", "#", ".", ".", "#", ".", "#", "#", ".", ".", "\n",
       "#", ".", "#", "#", ".", ".", ".", "#", "#", ".", "\n",
       "\n",
       "T", "i", "l", "e", " ", "3", "0", "7", "9", ":", "\n",
       "#", ".", "#", ".", "#", "#", "#", "#", "#", ".", "\n",
       ".", "#", ".", ".", "#", "#", "#", "#", "#", "#", "\n",
       ".", ".", "#", ".", ".", ".", ".", ".", ".", ".", "\n",
       "#", "#", "#", "#", "#", "#", ".", ".", ".", ".", "\n",
       "#", "#", "#", "#", ".", "#", ".", ".", "#", ".", "\n",
       ".", "#", ".", ".", ".", "#", ".", "#", "#", ".", "\n",
       "#", ".", "#", "#", "#", "#", "#", ".", "#", "#", "\n",
       ".", ".", "#", ".", "#", "#", "#", ".", ".", ".", "\n",
       ".", ".", "#", ".", ".", ".", ".", ".", ".", ".", "\n",
       ".", ".", "#", ".", "#", "#", "#", ".", ".", "." >>
----------------------------------------------------------------------------
(* day_20.rs: get_frames_and_neighbors, get_corners_and_edges *)

\* lines 261-263: some signature of tile ix2 equals some signature of tile ix1.
SharesBorder(borders2, borders1) ==
    \E e1 \in 1..Len(borders2) : \E e2 \in 1..Len(borders1) : borders1[e2] = borders2[e1]

\* A faulty push that records the pair in one list only.
PushBoth_OneWay(nb, ix1, ix2) == [nb EXCEPT ![ix1 + 1] = Append(@, ix2)]

\* lines 265-266: both pushes.
PushBoth(nb, ix1, ix2) ==
    [nb EXCEPT ![ix1 + 1] = Append(@, ix2), ![ix2 + 1] = Append(@, ix1)]

\* lines 260-268: for ix2 in 0..ix1
RECURSIVE InnerLoop(_, _, _, _)
InnerLoop(borders, ix1, ix2, nb) ==
    IF ix2 >= ix1 THEN nb
    ELSE InnerLoop(borders, ix1, ix2 + 1,
                   IF SharesBorder(At(borders, ix2), At(borders, ix1))
                   THEN PushBoth(nb, ix1, ix2)
                   ELSE nb)

\* lines 257-269: for ix1 over the tiles; the lists after the inner loop are
\* taken as a value (next) before the loop goes on.
RECURSIVE NeighborLoop(_, _, _)
NeighborLoop(borders, ix1, nb) ==
    IF ix1 >= Len(borders) THEN nb
    ELSE CHOOSE done \in {NeighborLoop(borders, ix1 + 1, next) :
                              next \in {InnerLoop(borders, ix1, 0, nb)}} : TRUE

get_frames_and_neighbors(ts) ==
    LET borders == [i \in 1..Len(ts) |-> border_masks(ts[i])] IN
    [borders |-> borders,
     neighbors |-> NeighborLoop(borders, 0, [i \in 1..Len(ts) |-> << >>])]

\* A faulty get_corners_and_edges with the two degrees exchanged.
get_corners_and_edges_Swapped(nb) ==
    [corners |-> Ascending({ix \in 0..(Len(nb) - 1) : Len(At(nb, ix)) = 3}),
     edges |-> Ascending({ix \in 0..(Len(nb) - 1) : Len(At(nb, ix)) = 2})]

\* get_corners_and_edges: tile indices by the length of their neighbour list.
WithDegree(nb, d) == Ascending({ix \in 0..(Len(nb) - 1) : Len(At(nb, ix)) = d})
get_corners_and_edges(nb) == [corners |-> WithDegree(nb, 2), edges |-> WithDegree(nb, 3)]

----------------------------------------------------------------------------
(* day_20.rs: place_tiles.  p is the placement grid filled so far. *)

\* lines 297-300
Row0Ok(nb, p, x, ix) ==
    /\ (x < 2 \/ ix # Index(p, x - 2, 0))
    /\ Contains(At(nb, ix), Index(p, x - 1, 0))

\* lines 307-309, reached with size >= 3
TopRightOk(nb, p, size, ix) ==
    /\ ix # Index(p, size - 3, 0)
    /\ Contains(At(nb, ix), Index(p, size - 2, 0))

\* lines 317-321
Col0Ok(nb, p, y, ix) ==
    /\ (y < 2 \/ ix # Index(p, 0, y - 2))
    /\ Contains(At(nb, ix), Index(p, 0, y - 1))
    /\ ix # Index(p, 1, 0)

\* A faulty interior test that forgets the tile above.
InteriorOk_LeftOnly(nb, p, x, y, ix) == ix # Index(p, x - 1, y - 1)

\* lines 327-330
InteriorOk(nb, p, x, y, ix) ==
    /\ ix # Index(p, x - 1, y - 1)
    /\ Contains(At(nb, Index(p, x, y - 1)), ix)

\* lines 293-302: for x in 1..size - 1
RECURSIVE PlaceRow0(_, _, _, _, _)
PlaceRow0(nb, edges, size, p, x) ==
    IF x >= size - 1 THEN p
    ELSE LET hit == FindAt(edges, {i \in 1..Len(edges) : Row0Ok(nb, p, x, edges[i])}) IN
         IF ~hit.some THEN Panic
         ELSE PlaceRow0(nb, edges, size, IndexSet(p, x, 0, hit.v), x + 1)

\* lines 304-310.  `size - 3` is evaluated for the first corner tried: below
\* size 3 the subtraction overflows (a panic in a debug build; in a release
\* build it wraps and the index of placement[[size - 3, 0]] is out of range).
PlaceTopRight(nb, corners, size, p) ==
    IF size < 3 THEN Panic
    ELSE LET hit == FindAt(corners, {i \in 1..Len(corners) : TopRightOk(nb, p, size, corners[i])}) IN
         IF ~hit.some THEN Panic
         ELSE IndexSet(p, size - 1, 0, hit.v)

\* lines 312-333: for y in 1..size, column 0 and then x in 1..size
RECURSIVE PlaceRows(_, _, _, _, _, _)
PlaceRows(nb, cands, size, p, x, y) ==
    IF y >= size THEN p
    ELSE IF x >= size THEN PlaceRows(nb, cands, size, p, 0, y + 1)
    ELSE LET from == IF x = 0 THEN cands ELSE At(nb, Index(p, x - 1, y))
             hits == IF x = 0
                     THEN {i \in 1..Len(from) : Col0Ok(nb, p, y, from[i])}
                     ELSE {i \in 1..Len(from) : InteriorOk(nb, p, x, y, from[i])}
             hit == FindAt(from, hits)
         IN  IF ~hit.some THEN Panic
             ELSE PlaceRows(nb, cands, size, IndexSet(p, x, y, hit.v), x + 1, y)

\* place_tiles.  corners[0] panics when there is no corner.
place_tiles(nb, size) ==
    LET ce == get_corners_and_edges(nb)
        p0 == Grid_new(size, size, 0)
    IN  IF ce.corners = << >> \/ size = 0 THEN Panic
        ELSE LET p1 == PlaceRow0(nb, ce.edges, size, IndexSet(p0, 0, 0, ce.corners[1]), 1) IN
             IF IsPanic(p1) THEN Panic
             ELSE LET p2 == PlaceTopRight(nb, ce.corners, size, p1) IN
                  IF IsPanic(p2) THEN Panic
                  ELSE PlaceRows(nb, ce.edges \o ce.corners, size, p2, 0, 1)

----------------------------------------------------------------------------
(* day_20.rs: orient_tiles *)

\* lines 356-359: the raw signature slot that is the top, right, bottom and
\* left edge under orientation code ix.
\* A faulty table that takes code 5 for a vertical flip followed by a
\* transpose and code 6 for a horizontal flip followed by one.
TopSlot_FlipsExchanged == << 0, 1, 2, 3, 4, 5, 6, 7 >>

TopSlot == << 0, 1, 2, 3, 4, 6, 5, 7 >>
RightSlot == << 6, 4, 7, 5, 2, 3, 0, 1 >>
BottomSlot == << 2, 3, 0, 1, 6, 4, 7, 5 >>
LeftSlot == << 4, 6, 5, 7, 0, 1, 2, 3 >>

\* A faulty test that leaves out the tile below.
OrientOk_NoBottom(p, fr, x, y, ix) ==
    LET size == p.width
        cur_frames == At(fr, Index(p, x, y))
        top == At(cur_frames, At(TopSlot, ix))
        right == At(cur_frames, At(RightSlot, ix))
        left == At(cur_frames, At(LeftSlot, ix))
    IN  /\ (y = 0 \/ Contains(At(fr, Index(p, x, y - 1)), top))
        /\ (x = 0 \/ Contains(At(fr, Index(p, x - 1, y)), left))
        /\ (x = size - 1 \/ Contains(At(fr, Index(p, x + 1, y)), right))

\* lines 355-364
OrientOk(p, fr, x, y, ix) ==
    LET size == p.width
        cur_frames == At(fr, Index(p, x, y))
        top == At(cur_frames, At(TopSlot, ix))
        right == At(cur_frames, At(RightSlot, ix))
        bottom == At(cur_frames, At(BottomSlot, ix))
        left == At(cur_frames, At(LeftSlot, ix))
    IN  /\ (y = 0 \/ Contains(At(fr, Index(p, x, y - 1)), top))
        /\ (x = 0 \/ Contains(At(fr, Index(p, x - 1, y)), left))
        /\ (y = size - 1 \/ Contains(At(fr, Index(p, x, y + 1)), bottom))
        /\ (x = size - 1 \/ Contains(At(fr, Index(p, x + 1, y)), right))

\* (0..8).find(..) for the cell (x, y)
OrientFind(p, fr, x, y) ==
    LET hits == {ix \in 0..7 : OrientOk(p, fr, x, y, ix)} IN
    IF hits = {} THEN None ELSE Some(Min(hits))

\* orient_tiles: the cells are searched in row-major order; no search reads
\* the orientation grid, so the first failing unwrap() decides the panic.
orient_tiles(p, fr) ==
    LET size == p.width
        found == [i \in 1..(size * size) |-> OrientFind(p, fr, (i - 1) % size, (i - 1) \div size)]
    IN  IF \E i \in 1..(size * size) : ~found[i].some THEN Panic
        ELSE [data |-> [i \in 1..(size * size) |-> found[i].v], width |-> size, height |-> size]

----------------------------------------------------------------------------
(* day_20.rs: construct_combiend_grid *)

\* lines 385-387: the tile's grid cloned and transformed by its code.
OrientedGrid(g, ord) == transform(g, (ord % 2) # 0, ((ord \div 2) % 2) # 0, ((ord \div 4) % 2) # 0)

\* lines 382-395: y outer, x inner; lg is the canvas so far.
RECURSIVE AssembleLoop(_, _, _, _, _, _)
AssembleLoop(ts, p, o, lg, x, y) ==
    LET size == p.width
        tile_width == ts[1].grid.width
        tile_height == ts[1].grid.height
    IN  IF y >= size THEN lg
        ELSE IF x >= size THEN AssembleLoop(ts, p, o, lg, 0, y + 1)
        ELSE LET oriented == OrientedGrid(At(ts, Index(p, x, y)).grid, Index(o, x, y)) IN
             IF IsPanic(oriented) THEN Panic
             ELSE LET next == splice(lg, << x * (tile_width - 2), y * (tile_height - 2) >>,
                                     oriented, << 1, 1 >>, << tile_width - 2, tile_height - 2 >>)
                  IN  IF IsPanic(next) THEN Panic
                      ELSE AssembleLoop(ts, p, o, next, x + 1, y)

\* construct_combiend_grid.  `tile_width - 2` overflows for a tile less than
\* 2 wide or high: a panic in a debug build, and in a release build the
\* wrapped sizes make splice's range test or its slices panic.
construct_combiend_grid(ts, p, o) ==
    LET tile_width == ts[1].grid.width
        tile_height == ts[1].grid.height
        large_grid_size == (tile_width - 2) * p.width
    IN  IF tile_width < 2 \/ tile_height < 2 THEN Panic
        ELSE AssembleLoop(ts, p, o, Grid_new(large_grid_size, large_grid_size, Off), 0, 0)

----------------------------------------------------------------------------
(* day_20.rs: get_monster, count_monsters *)

\* lines 434-438: the motif, one sequence of characters per line.
monster_image ==
    << << ".", ".", ".", ".", ".", ".", ".", ".", ".", ".", ".", ".", ".", ".", ".", ".", ".", ".", "#", "." >>,
       << "#", ".", ".", ".", ".", "#", "#", ".", ".", ".", ".", "#", "#", ".", ".", ".", ".", "#", "#", "#" >>,
       << ".", "#", ".", ".", "#", ".", ".", "#", ".", ".", "#", ".", ".", "#", ".", ".", "#", ".", ".", "." >> >>

\* get_monster: (monster_width, monster_height, monster_pixels)
get_monster ==
    [width |-> Max({Len(monster_image[r]) : r \in 1..Len(monster_image)}),
     height |-> Len(monster_image),
     pixels |-> {<< x, y >> \in (0..19) \X (0..(Len(monster_image) - 1)) :
                    x < Len(At(monster_image, y)) /\ At(At(monster_image, y), x) = "#"}]

\* A faulty list whose fifth round mirrors where it should transpose.
MonsterRounds_NoTranspose ==
    << << FALSE, FALSE, FALSE >>, << FALSE, FALSE, TRUE >>, << FALSE, TRUE, FALSE >>,
       << FALSE, FALSE, TRUE >>, << FALSE, TRUE, FALSE >>, << FALSE, FALSE, TRUE >>,
       << FALSE, TRUE, FALSE >>, << FALSE, FALSE, TRUE >> >>

\* lines 404-414: [transpose, mirror_x, mirror_y] of each round.
MonsterRounds ==
    << << FALSE, FALSE, FALSE >>, << FALSE, FALSE, TRUE >>, << FALSE, TRUE, FALSE >>,
       << FALSE, FALSE, TRUE >>, << TRUE, FALSE, FALSE >>, << FALSE, FALSE, TRUE >>,
       << FALSE, TRUE, FALSE >>, << FALSE, FALSE, TRUE >> >>

\* lines 418-423: every motif pixel is On in the window at (x, y).
MonsterAt(g, x, y) ==
    \A d \in get_monster.pixels : Index(g, x + d[1], y + d[2]) = On

\* lines 416-425: the windows of one orientation that match.
MonstersIn(g, large_grid_size) ==
    Cardinality({w \in (0..(large_grid_size - get_monster.width))
                        \X (0..(large_grid_size - get_monster.height)) : MonsterAt(g, w[1], w[2])})

\* lines 404-429: round i on the canvas g left by round i - 1.
RECURSIVE MonsterLoop(_, _, _, _)
MonsterLoop(g, large_grid_size, i, monster_count) ==
    IF i > Len(MonsterRounds)
    THEN [count |-> monster_count, size |-> Cardinality(get_monster.pixels), rounds |-> i - 1, grid |-> g]
    ELSE LET r == MonsterRounds[i]
             g2 == transform(g, r[2], r[3], r[1])
         IN  IF IsPanic(g2) THEN Panic
             ELSE LET c == monster_count + MonstersIn(g2, large_grid_size) IN
                  IF c > 0
                  THEN [count |-> c, size |-> Cardinality(get_monster.pixels), rounds |-> i, grid |-> g2]
                  ELSE MonsterLoop(g2, large_grid_size, i + 1, c)

\* count_monsters.  `large_grid_size - monster_height` and `- monster_width`
\* overflow on a canvas smaller than the motif: a panic in a debug build, and
\* in a release build the wrapped loop bound runs x or y past the data, where
\* the index panics.
count_monsters(g) ==
    IF g.width < get_monster.width \/ g.width < get_monster.height THEN Panic
    ELSE MonsterLoop(g, g.width, 1, 0)

----------------------------------------------------------------------------
(* day_20.rs: part_1, part_2 *)

\* A u64 product as little-endian limbs of LimbBase.  The ids of this model
\* have at most four digits and at most four tiles are kept, so every product
\* has at most four limbs: it is below 10^16 and the u64 does not overflow.
LimbBase == 10 ^ 4
RECURSIVE MulLimbs(_, _, _)
MulLimbs(limbs, m, carry) ==
    IF limbs = << >> THEN (IF carry = 0 THEN << >> ELSE << carry >>)
    ELSE LET v == limbs[1] * m + carry IN
         << v % LimbBase >> \o MulLimbs(Tail(limbs), m, v \div LimbBase)
RECURSIVE Product(_)
Product(ids) ==
    IF ids = << >> THEN << 1 >> ELSE MulLimbs(Product(Tail(ids)), ids[1], 0)

\* A faulty filter that keeps the border tiles too.
IsCornerDegree_AtMost3(nbs) == Len(nbs) <= 3

\* line 231: the tiles kept by the filter
IsCornerDegree(nbs) == Len(nbs) = 2

\* part_1
part_1(ts) ==
    LET nb == get_frames_and_neighbors(ts).neighbors
        kept == Ascending({i \in 1..Len(ts) : IsCornerDegree(nb[i])})
    IN  Product([j \in 1..Len(kept) |-> ts[kept[j]].id])

\* usize::isqrt
isqrt(n) == Max({r \in 0..n : r * r <= n})

\* lines 244-248
CountOn(g) == Cardinality({i \in 1..Len(g.data) : g.data[i] = On})

----------------------------------------------------------------------------
(* The inputs of part_1 / part_2: tile lists cut from a square image.      *)
(* A puzzle is cut as cells x cells tiles of side n.  The frame of a tile  *)
(* carries one code per edge of the cut (shared by the two tiles on either *)
(* side of it), the inside of the tile carries the picture.  The tile list *)
(* is then shuffled and every tile is turned by one of the 8 symmetries.   *)

\* The largest cut: MaxCells x MaxCells tiles.
MaxCells == 4
\* Tile sides: the frame must hold 2 * cells * (cells + 1) different codes
\* in n - 4 bits, and (n - 2) * cells must reach the motif's width.
TileSides == {10, 12}
\* Shuffles i |-> (a * i + b) % N of the tile list: b below MaxShift.
MaxShift == 3

Gcd(a, b) == Max({d \in 1..a : a % d = 0 /\ b % d = 0})

HCode(cells, col, line) == line * cells + col
VCode(cells, line, row) == cells * (cells + 1) + row * (cells + 1) + line

\* Pixel `pos` of an edge with code `code`: the ends are Off, the second pixel
\* is On and the last but one is Off, so that no code reads as another code
\* backwards; the pixels between are the bits of the code.
EdgePixel(code, pos, n) ==
    IF pos = 0 \/ pos = n - 1 \/ pos = n - 2 THEN Off
    ELSE IF pos = 1 THEN On
    ELSE IF (code \div (2 ^ (pos - 2))) % 2 = 1 THEN On ELSE Off

\* The pictures.
Pictures == {"blank", "full", "monster", "pair", "flipped"}
Picture(name, size, X, Y) ==
    CASE name = "blank" -> Off
      [] name = "full" -> On
      [] name = "monster" ->
            IF << X, Y >> \in get_monster.pixels \/ << X, Y >> = << 2, 7 >> THEN On ELSE Off
      [] name = "pair" ->
            IF << X, Y >> \in get_monster.pixels \/ << X - (size - 20), Y - 4 >> \in get_monster.pixels
            THEN On ELSE Off
      [] name = "flipped" ->
            IF << Y, size - 1 - X >> \in get_monster.pixels \/ << X, Y >> = << 7, 1 >> THEN On ELSE Off

\* The tile at (col, row) of the cut, as it lies in the picture.
\* variant "twist": the left edge of the tile at (1, 0) is written backwards.
\* variant "extra": the top edge of the tile at (0, 0) repeats the bottom edge
\* of the tile at (cells - 1, cells - 1).
\* variant "opposed": the tile at (0, 0) carries on its top edge the code it
\* shares with the tile at (1, 0), and on its right edge the code of its top
\* edge, so that its two neighbours meet it on opposite edges.
CutPixel(d, col, row, x, y) ==
    LET n == d.n
        cells == d.cells
        top == IF d.variant = "extra" /\ col = 0 /\ row = 0
               THEN HCode(cells, cells - 1, cells)
               ELSE IF d.variant = "opposed" /\ col = 0 /\ row = 0
               THEN VCode(cells, 1, 0)
               ELSE HCode(cells, col, row)
        right == IF d.variant = "opposed" /\ col = 0 /\ row = 0
                 THEN HCode(cells, 0, 0)
                 ELSE VCode(cells, col + 1, row)
    IN  IF y = 0 THEN EdgePixel(top, x, n)
        ELSE IF y = n - 1 THEN EdgePixel(HCode(cells, col, row + 1), x, n)
        ELSE IF x = 0 THEN
            IF d.variant = "twist" /\ col = 1 /\ row = 0
            THEN EdgePixel(VCode(cells, col, row), n - 1 - y, n)
            ELSE EdgePixel(VCode(cells, col, row), y, n)
        ELSE IF x = n - 1 THEN EdgePixel(right, y, n)
        ELSE Picture(d.picture, cells * (n - 2), col * (n - 2) + x - 1, row * (n - 2) + y - 1)

\* Symmetry `o` (0..7) of a square of side n: the cell that lands on (x, y).
TurnedPixel(d, col, row, o, x, y) ==
    LET n == d.n
        tx == IF o \div 4 = 1 THEN y ELSE x
        ty == IF o \div 4 = 1 THEN x ELSE y
        fx == IF o % 2 = 1 THEN n - 1 - tx ELSE tx
        fy == IF (o \div 2) % 2 = 1 THEN n - 1 - ty ELSE ty
    IN  CutPixel(d, col, row, fx, fy)

\* Tile i (0-based) of the list: which cell it is and how it is turned.
CellOf(d, i) == (d.a * i + d.b) % (d.cells * d.cells)
TurnOf(d, i) == (d.m * i + d.c) % 8
Primes ==
    << 2, 3, 5, 7, 11, 13, 17, 19, 23, 29, 31, 37, 41, 43, 47,
       53, 59, 61, 67, 71, 73, 79, 83, 89, 97, 101, 103, 107, 109, 113, 127, 131, 137, 139, 149, 151 >>

CutTile(d, i) ==
    LET cell == CellOf(d, i)
        col == cell % d.cells
        row == cell \div d.cells
    IN  [id |-> Primes[cell + 1],
         grid |-> [data |-> [j \in 1..(d.n * d.n) |->
                                TurnedPixel(d, col, row, TurnOf(d, i), (j - 1) % d.n, (j - 1) \div d.n)],
                   width |-> d.n, height |-> d.n]]

CutTiles(d) == [i \in 1..(d.cells * d.cells) |-> CutTile(d, i - 1)]
CutLayout(d) ==
    [i \in 1..(d.cells * d.cells) |-> << CellOf(d, i - 1) % d.cells, CellOf(d, i - 1) \div d.cells >>]

Cut(cells, n, picture, a, b, m, c, variant) ==
    [cells |-> cells, n |-> n, picture |-> picture, a |-> a, b |-> b, m |-> m, c |-> c,
     variant |-> variant]

\* Every shuffle of a blank cut, every turn of the cuts with a picture, and
\* the damaged variants.
Shuffled ==
    {Cut(cells, 10, "blank", a, b, 3, 1, "plain") :
        cells \in 1..MaxCells, a \in 1..8, b \in 0..(MaxShift - 1)}
Turned ==
    {Cut(cells, n, pic, 1, 0, m, c, "plain") :
        cells \in 2..MaxCells, n \in TileSides, pic \in Pictures, m \in {0, 3}, c \in {0, 5}}
Damaged ==
    {Cut(cells, 10, "monster", a, 1, 1, c, v) :
        cells \in 2..MaxCells, a \in {1, 2}, c \in 0..3, v \in {"twist", "extra", "opposed"}}
Cuts ==
    {d \in Shuffled \cup Turned \cup Damaged :
        /\ (d.a = 1 \/ (d.a < d.cells * d.cells /\ Gcd(d.a, d.cells * d.cells) = 1))
        /\ d.b < d.cells * d.cells}

\* The test's tile list (test_part_1, test_part_2): ids as parsed, cell by
\* cell as the puzzle text shows the assembled example.
ExampleLayout ==
    << << 1, 0 >>, << 0, 0 >>, << 2, 2 >>, << 1, 1 >>, << 1, 2 >>, << 2, 1 >>, << 0, 2 >>, << 0, 1 >>, << 2, 0 >> >>

----------------------------------------------------------------------------
(* Spec: part_1 and then part_2 on one tile list. *)

IdleDay08 ==
    /\ instructions = Idle /\ at08 = Idle /\ ip = Idle /\ accumulator = Idle
    /\ visited = Idle /\ halted1 = Idle /\ halted2 = Idle
IdleDay11 ==
    /\ seat_layout = Idle /\ strategy = Idle /\ sim = Idle /\ before = Idle
    /\ any_change = Idle /\ at11 = Idle /\ occupied = Idle
IdleDay23 ==
    /\ labels = Idle /\ at23 = Idle /\ turn = Idle /\ cups = Idle /\ current = Idle
    /\ text1 = Idle /\ circle = Idle
IdleDay18 == tokens = Idle /\ flat = Idle /\ nested = Idle
IdleDay16 == given_ranges = Idle /\ ranges = Idle
IdleDay22 ==
    /\ initial_state = Idle /\ played = Idle /\ games = Idle /\ at22 = Idle /\ winner = Idle
\* The days other than day 20 are not run.
IdleOtherDays ==
    IdleDay08 /\ IdleDay11 /\ IdleDay23 /\ IdleDay18 /\ IdleDay16 /\ IdleDay22
OtherDays == << varsDay08, varsDay11, varsDay23, varsDay18, varsDay16, varsDay22 >>

IdleParse == input = Idle /\ parsed = Idle
IdleGrid == grid0 = Idle /\ grid = Idle /\ ops = Idle
IdleTile == tile = Idle /\ masks = Idle
IdlePuzzle ==
    /\ pc = Idle /\ tiles = Idle /\ layout = Idle /\ side = Idle /\ frames = Idle
    /\ neighbors = Idle /\ placement = Idle /\ orientation = Idle /\ large_grid = Idle
    /\ large_grid_pixels = Idle /\ monsters = Idle /\ result1 = Idle /\ result2 = Idle

InitPuzzle ==
    /\ \/ \E d \in Cuts : tiles = CutTiles(d) /\ layout = CutLayout(d) /\ side = d.cells
       \/ tiles = parse(EXAMPLE).v /\ layout = ExampleLayout /\ side = 3
    /\ pc = "part_1"
    /\ frames = NotRun /\ neighbors = NotRun /\ placement = NotRun /\ orientation = NotRun
    /\ large_grid = NotRun /\ large_grid_pixels = NotRun /\ monsters = NotRun
    /\ result1 = NotRun /\ result2 = NotRun

Init == InitPuzzle /\ IdleParse /\ IdleGrid /\ IdleTile /\ IdleOtherDays

OutsidePuzzle == << varsParse, varsGrid, varsTile, OtherDays >>

\* No tile is so wide that a shift of border_masks overflows (SpecTile has
\* those tiles): the tiles of Cuts are at most 12 wide.
NoShiftOverflows == \A i \in 1..Len(tiles) : ~border_masks_overflows(tiles[i])

\* part_1, lines 225-233
Part1 ==
    /\ pc = "part_1"
    /\ NoShiftOverflows
    /\ result1' = part_1(tiles)
    /\ pc' = "part_2"
    /\ UNCHANGED << tiles, layout, side, frames, neighbors, placement, orientation,
                    large_grid, large_grid_pixels, monsters, result2 >>
    /\ UNCHANGED OutsidePuzzle

\* part_2, line 237
GetFramesAndNeighbors ==
    /\ pc = "part_2"
    /\ NoShiftOverflows
    /\ LET fn == get_frames_and_neighbors(tiles) IN
        frames' = fn.borders /\ neighbors' = fn.neighbors
    /\ pc' = "place_tiles"
    /\ UNCHANGED << tiles, layout, side, placement, orientation,
                    large_grid, large_grid_pixels, monsters, result1, result2 >>
    /\ UNCHANGED OutsidePuzzle

\* A panic unwinds out of part_2.
Unwind == pc' = "panicked" /\ result2' = Panic

\* part_2, lines 239-240
PlaceTiles ==
    /\ pc = "place_tiles"
    /\ placement' = place_tiles(neighbors, isqrt(Len(tiles)))
    /\ IF IsPanic(placement') THEN Unwind ELSE pc' = "orient_tiles" /\ result2' = result2
    /\ UNCHANGED << tiles, layout, side, frames, neighbors, orientation,
                    large_grid, large_grid_pixels, monsters, result1 >>
    /\ UNCHANGED OutsidePuzzle

\* part_2, line 241
OrientTiles ==
    /\ pc = "orient_tiles"
    /\ orientation' = orient_tiles(placement, frames)
    /\ IF IsPanic(orientation') THEN Unwind ELSE pc' = "construct" /\ result2' = result2
    /\ UNCHANGED << tiles, layout, side, frames, neighbors, placement,
                    large_grid, large_grid_pixels, monsters, result1 >>
    /\ UNCHANGED OutsidePuzzle

\* part_2, lines 243-248
Construct ==
    /\ pc = "construct"
    /\ large_grid' = construct_combiend_grid(tiles, placement, orientation)
    /\ IF IsPanic(large_grid')
       THEN Unwind /\ large_grid_pixels' = large_grid_pixels
       ELSE pc' = "count_monsters" /\ result2' = result2 /\ large_grid_pixels' = CountOn(large_grid')
    /\ UNCHANGED << tiles, layout, side, frames, neighbors, placement, orientation,
                    monsters, result1 >>
    /\ UNCHANGED OutsidePuzzle

\* part_2, line 250
CountMonsters ==
    /\ pc = "count_monsters"
    /\ monsters' = count_monsters(large_grid)
    /\ IF IsPanic(monsters') THEN Unwind ELSE pc' = "return" /\ result2' = result2
    /\ UNCHANGED << tiles, layout, side, frames, neighbors, placement, orientation,
                    large_grid, large_grid_pixels, result1 >>
    /\ UNCHANGED OutsidePuzzle

\* part_2, line 251, the subtraction in range
Return ==
    /\ pc = "return"
    /\ large_grid_pixels >= monsters.count * monsters.size
    /\ result2' = large_grid_pixels - monsters.count * monsters.size
    /\ pc' = "returned"
    /\ UNCHANGED << tiles, layout, side, frames, neighbors, placement, orientation,
                    large_grid, large_grid_pixels, monsters, result1 >>
    /\ UNCHANGED OutsidePuzzle

\* part_2, line 251, the subtraction below zero: a debug build panics
ReturnOverflowPanics ==
    /\ pc = "return"
    /\ large_grid_pixels < monsters.count * monsters.size
    /\ Unwind
    /\ UNCHANGED << tiles, layout, side, frames, neighbors, placement, orientation,
                    large_grid, large_grid_pixels, monsters, result1 >>
    /\ UNCHANGED OutsidePuzzle

\* part_2, line 251, the subtraction below zero: a release build wraps to
\* 2^64 - (count * size - pixels)
ReturnOverflowWraps ==
    /\ pc = "return"
    /\ large_grid_pixels < monsters.count * monsters.size
    /\ result2' = [wrapped_below_2_64 |-> monsters.count * monsters.size - large_grid_pixels]
    /\ pc' = "returned"
    /\ UNCHANGED << tiles, layout, side, frames, neighbors, placement, orientation,
                    large_grid, large_grid_pixels, monsters, result1 >>
    /\ UNCHANGED OutsidePuzzle

Next ==
    \/ Part1
    \/ GetFramesAndNeighbors
    \/ PlaceTiles
    \/ OrientTiles
    \/ Construct
    \/ CountMonsters
    \/ Return
    \/ ReturnOverflowPanics
    \/ ReturnOverflowWraps

Spec == Init /\ [][Next]_vars

----------------------------------------------------------------------------
(* SpecParse: parse on a text of up to MaxTiles tiles. *)

\* Tile texts: well-formed ones and one for every way the text can be wrong.
TileTexts ==
    <<   \* a 2 x 2 tile
       << "T", "i", "l", "e", " ", "7", ":", "\n", "#", ".", "\n", ".", "#" >>,
         \* a 1 x 1 tile
       << "T", "i", "l", "e", " ", "3", ":", "\n", "#" >>,
         \* header: wrong prefix
       << "T", "y", "l", "e", " ", "7", ":", "\n", "#" >>,
         \* header: no colon
       << "T", "i", "l", "e", " ", "7", "\n", "#" >>,
         \* header: not a number
       << "T", "i", "l", "e", " ", "x", ":", "\n", "#" >>,
         \* header: no number
       << "T", "i", "l", "e", " ", ":", "\n", "#" >>,
         \* 2 wide, 1 high
       << "T", "i", "l", "e", " ", "5", ":", "\n", "#", "." >>,
         \* 1 wide, 2 high
       << "T", "i", "l", "e", " ", "5", ":", "\n", "#", "\n", "." >>,
         \* second row shorter
       << "T", "i", "l", "e", " ", "5", ":", "\n", "#", ".", "\n", "#" >>,
         \* second row longer, past the end of the data
       << "T", "i", "l", "e", " ", "5", ":", "\n", "#", "\n", ".", "#" >>,
         \* second row longer, inside the data
       << "T", "i", "l", "e", " ", "5", ":", "\n", "#", ".", "\n", ".", "#", "#", "\n", ".", "." >>,
         \* no pixel rows
       << "T", "i", "l", "e", " ", "5", ":" >>,
         \* a character that is no pixel
       << "T", "i", "l", "e", " ", "5", ":", "\n", "#", "x", "\n", ".", "." >>,
         \* a character that is no pixel, past the end of the data
       << "T", "i", "l", "e", " ", "5", ":", "\n", "#", "\n", ".", "x" >>,
         \* no text at all
       << >> >>

\* The longest input, in tiles.
MaxTiles == 2

\* `parts`, joined by a blank line.
RECURSIVE JoinBlank(_)
JoinBlank(parts) ==
    IF Len(parts) = 1 THEN parts[1]
    ELSE parts[1] \o << NL, NL >> \o JoinBlank(Tail(parts))

RECURSIVE TextLists(_)
TextLists(n) ==
    IF n = 0 THEN {<< >>}
    ELSE {Append(l, t) : l \in TextLists(n - 1), t \in 1..Len(TileTexts)}

Texts == {JoinBlank([i \in 1..Len(l) |-> TileTexts[l[i]]]) : l \in UNION {TextLists(n) : n \in 1..MaxTiles}}

OutsideParse == << varsGrid, varsTile, varsPuzzle, OtherDays >>

InitParse ==
    /\ input \in Texts
    /\ parsed = NotRun
    /\ IdleGrid /\ IdleTile /\ IdlePuzzle /\ IdleOtherDays

\* parse, lines 220-222
Parse ==
    /\ parsed = NotRun
    /\ parsed' = parse(input)
    /\ UNCHANGED input
    /\ UNCHANGED OutsideParse

NextParse == Parse

SpecParse == InitParse /\ [][NextParse]_vars

----------------------------------------------------------------------------
(* SpecGrid: transform calls on one Grid. *)

\* The largest width and height of a grid.
MaxDim == 3
\* The most cells of a grid of pixels whose every pattern is tried.
MaxPatternCells == 6
\* The most transform calls in a run.
MaxOps == 2

\* The grid whose cells are 0, 1, 2, .. in row-major order: all different.
Numbered(w, h) == [data |-> [i \in 1..(w * h) |-> i - 1], width |-> w, height |-> h]
Patterns(w, h) ==
    {[data |-> d, width |-> w, height |-> h] : d \in [1..(w * h) -> {On, Off}]}
Grids ==
    {Numbered(w, h) : w \in 0..MaxDim, h \in 0..MaxDim}
    \cup UNION {Patterns(wh[1], wh[2]) :
                    wh \in {wh \in (1..MaxDim) \X (1..MaxDim) : wh[1] * wh[2] <= MaxPatternCells}}

OutsideGrid == << varsParse, varsTile, varsPuzzle, OtherDays >>

InitGrid ==
    /\ grid0 \in Grids
    /\ grid = grid0
    /\ ops = << >>
    /\ IdleParse /\ IdleTile /\ IdlePuzzle /\ IdleOtherDays

\* Grid::transform, lines 69-96, on the grid as the last call left it
Transform ==
    /\ ~IsPanic(grid)
    /\ Len(ops) < MaxOps
    /\ \E mirror_x \in BOOLEAN, mirror_y \in BOOLEAN, transpose \in BOOLEAN :
        /\ grid' = transform(grid, mirror_x, mirror_y, transpose)
        /\ ops' = Append(ops, << mirror_x, mirror_y, transpose >>)
    /\ UNCHANGED grid0
    /\ UNCHANGED OutsideGrid

NextGrid == Transform

SpecGrid == InitGrid /\ [][NextGrid]_vars

----------------------------------------------------------------------------
(* SpecTile: border_masks on one Tile. *)

\* The largest width and height of a tile.
MaxSide == 3

\* The pixels off the frame do not enter a border: they are all On or all Off.
IsFrame(w, h, i) ==
    LET x == (i - 1) % w
        y == (i - 1) \div w
    IN  x = 0 \/ y = 0 \/ x = w - 1 \/ y = h - 1
TilePatterns(w, h) ==
    {g \in Patterns(w, h) :
        \A i \in 1..(w * h), j \in 1..(w * h) :
            (~IsFrame(w, h, i) /\ ~IsFrame(w, h, j)) => g.data[i] = g.data[j]}
SmallTiles ==
    {[id |-> 1, grid |-> g] : g \in UNION {TilePatterns(w, h) : w \in 1..MaxSide, h \in 1..MaxSide}}

\* Tiles as wide as a mask and one pixel wider, Off but for some of six
\* border pixels at and next to the corners.
WideSides == {16, 17}
Marks(n) == {<< 0, 0 >>, << n - 1, 0 >>, << 0, n - 1 >>, << n - 1, n - 1 >>, << 1, 0 >>, << n - 1, 1 >>}
Marked(n, S) ==
    [data |-> [i \in 1..(n * n) |->
                IF << (i - 1) % n, (i - 1) \div n >> \in S THEN On ELSE Off],
     width |-> n, height |-> n]
WideTiles ==
    UNION {{[id |-> 1, grid |-> Marked(n, S)] : S \in SUBSET Marks(n)} : n \in WideSides}

Tiles == SmallTiles \cup WideTiles

OutsideTile == << varsParse, varsGrid, varsPuzzle, OtherDays >>

InitTile ==
    /\ tile \in Tiles
    /\ masks = NotRun
    /\ IdleParse /\ IdleGrid /\ IdlePuzzle /\ IdleOtherDays

\* Tile::border_masks, lines 165-190, no shift overflowing
BorderMasks ==
    /\ masks = NotRun
    /\ ~border_masks_overflows(tile)
    /\ masks' = border_masks(tile)
    /\ UNCHANGED tile
    /\ UNCHANGED OutsideTile

\* Tile::border_masks when a shift overflows, debug build: panic
BorderMasksOverflowPanics ==
    /\ masks = NotRun
    /\ border_masks_overflows(tile)
    /\ masks' = Panic
    /\ UNCHANGED tile
    /\ UNCHANGED OutsideTile

\* Tile::border_masks when a shift overflows, release build: the shifts wrap
BorderMasksOverflowWraps ==
    /\ masks = NotRun
    /\ border_masks_overflows(tile)
    /\ masks' = border_masks(tile)
    /\ UNCHANGED tile
    /\ UNCHANGED OutsideTile

NextTile == BorderMasks \/ BorderMasksOverflowPanics \/ BorderMasksOverflowWraps

SpecTile == InitTile /\ [][NextTile]_vars

----------------------------------------------------------------------------
(* Day 20: what the properties below speak of. *)

\* Tiles i and j (positions in the tile list, from 1) share a border signature.
Matching(sig, i, j) ==
    i # j /\ \E a \in 1..8, b \in 1..8 : sig[i][a] = sig[j][b]

\* The adjacency graph read off the tiles themselves: for every tile the set
\* of the tiles it shares a signature with.
Signatures == [i \in 1..Len(tiles) |-> border_masks(tiles[i])]
AdjacencyOf(sig) == [i \in 1..Len(sig) |-> {j \in 1..Len(sig) : Matching(sig, i, j)}]
Adjacency == CHOOSE adj \in {AdjacencyOf(sig) : sig \in {Signatures}} : TRUE

\* Two cells of the cut lie side by side.
Abs(n) == IF n < 0 THEN -n ELSE n
CellsTouch(c1, c2) == Abs(c1[1] - c2[1]) + Abs(c1[2] - c2[2]) = 1

\* A consistent puzzle: side * side tiles whose adjacency graph is the grid
\* graph of the cut, tile i standing for the cell layout[i].
ConsistentWith(adj) ==
    /\ Len(tiles) = side * side
    /\ \A i \in 1..Len(tiles), j \in 1..Len(tiles) :
            i # j => (j \in adj[i] <=> CellsTouch(layout[i], layout[j]))
Consistent == \E adj \in {Adjacency} : ConsistentWith(adj)

\* The canvas of the puzzle is at least as large as the motif.
CanvasFitsMotif == (tiles[1].grid.width - 2) * side >= 20

SetOf(s) == {s[i] : i \in 1..Len(s)}

\* How far the run has come.
Part1Returned == pc # "part_1"
NeighborsKnown == pc \notin {"part_1", "part_2"}

\* The 8 signatures of the tile in cell (x, y) of the placement, turned as
\* construct_combiend_grid turns it.
TurnedMasks(x, y) ==
    border_masks([id |-> 0,
                  grid |-> OrientedGrid(At(tiles, Index(placement, x, y)).grid,
                                        Index(orientation, x, y))])

----------------------------------------------------------------------------
(* Day 20: part_1, part_2 and their steps (Spec). *)

\* C1: for a consistent puzzle (of at least 2 x 2 tiles, with a canvas the
\* motif fits in) part_2 returns the number of On pixels of the assembled
\* canvas, counted before the search turns it, minus 15 for every match that
\* count_monsters found.
C1_Part2Result ==
    (pc \in {"returned", "panicked"} /\ Consistent /\ side >= 2 /\ CanvasFitsMotif)
        => /\ pc = "returned"
           /\ CountOn(large_grid) >= monsters.count * 15
           /\ result2 = CountOn(large_grid) - monsters.count * 15

\* C2: part_1 returns the product of the ids of exactly the tiles with two
\* neighbours; for a consistent puzzle of k x k tiles, k >= 2, these are the
\* tiles of the four corner cells.
C2_Part1CornerProduct ==
    Part1Returned =>
        \E adj \in {Adjacency} :
        LET two == Ascending({i \in 1..Len(tiles) : Cardinality(adj[i]) = 2})
            corner == Ascending({i \in 1..Len(tiles) :
                                    /\ layout[i][1] \in {0, side - 1}
                                    /\ layout[i][2] \in {0, side - 1}})
        IN  /\ result1 = Product([n \in 1..Len(two) |-> tiles[two[n]].id])
            /\ (ConsistentWith(adj) /\ side >= 2) =>
                    /\ Len(corner) = 4
                    /\ result1 = Product([n \in 1..Len(corner) |-> tiles[corner[n]].id])

\* The test's puzzle: part_1 returns 20899048083289 (test_part_1).
C2_Witness == Part1Returned /\ result1 = << 3289, 4808, 8990, 20 >>

\* C3: for a consistent puzzle of k x k tiles, k >= 2, place_tiles returns a
\* k x k grid that holds every tile index exactly once.
C3_PlacementBijection ==
    (placement # NotRun /\ Consistent /\ side >= 2)
        => /\ ~IsPanic(placement)
           /\ placement.width = side /\ placement.height = side
           /\ \A ix \in 0..(Len(tiles) - 1) :
                Cardinality({i \in 1..Len(placement.data) : placement.data[i] = ix}) = 1

\* C4: in the grid place_tiles returns for a consistent puzzle, two cells
\* side by side or one above the other hold tiles that are neighbours.
C4_PlacementAdjacency ==
    (placement # NotRun /\ ~IsPanic(placement) /\ Consistent)
        => \A x \in 0..(placement.width - 1), y \in 0..(placement.height - 1) :
            /\ x + 1 < placement.width =>
                Contains(At(neighbors, Index(placement, x, y)), Index(placement, x + 1, y))
            /\ y + 1 < placement.height =>
                Contains(At(neighbors, Index(placement, x, y)), Index(placement, x, y + 1))

C4_Witness ==
    placement # NotRun /\ ~IsPanic(placement) /\ Consistent /\ side = 3 /\ placement.width = 3

\* C5: after orient_tiles, the turned tiles of two cells side by side show
\* the same signature on the shared edge, read in the same direction: right
\* (slot 6) of the left one = left (slot 4) of the right one, bottom (slot 2)
\* of the upper one = top (slot 0) of the lower one.
C5_OrientedBordersEqual ==
    (orientation # NotRun /\ ~IsPanic(orientation))
        => \E turned \in {[x \in 0..(placement.width - 1), y \in 0..(placement.height - 1)
                                |-> TurnedMasks(x, y)]} :
            \A x \in 0..(placement.width - 1), y \in 0..(placement.height - 1) :
                /\ x + 1 < placement.width =>
                    At(turned[x, y], 6) = At(turned[x + 1, y], 4)
                /\ y + 1 < placement.height =>
                    At(turned[x, y], 2) = At(turned[x, y + 1], 0)

\* C6: j is in the neighbour list of i exactly when i # j and some signature
\* of tile i equals some signature of tile j; the relation is symmetric.
C6_AdjacencyInference ==
    NeighborsKnown =>
        \E adj \in {Adjacency} :
        \A i \in 1..Len(tiles), j \in 1..Len(tiles) :
            /\ Contains(neighbors[i], j - 1) <=> j \in adj[i]
            /\ Contains(neighbors[i], j - 1) <=> Contains(neighbors[j], i - 1)

C6_Witness ==
    /\ NeighborsKnown
    /\ \E i \in 1..Len(tiles), j \in 1..Len(tiles) : Contains(neighbors[i], j - 1)
    /\ \E i \in 1..Len(tiles), j \in 1..Len(tiles) : i # j /\ ~Contains(neighbors[i], j - 1)

\* The degrees of a k x k grid graph, and get_corners_and_edges telling them.
DegreesOfGrid(adj) ==
    LET n == Len(tiles)
        two == {i \in 1..n : Cardinality(adj[i]) = 2}
        three == {i \in 1..n : Cardinality(adj[i]) = 3}
        ce == get_corners_and_edges(neighbors)
    IN  /\ Cardinality(two) = 4
        /\ Cardinality(three) = 4 * (side - 2)
        /\ \A i \in 1..n : i \notin two \cup three => Cardinality(adj[i]) = 4
        /\ SetOf(ce.corners) = {i - 1 : i \in two}
        /\ SetOf(ce.edges) = {i - 1 : i \in three}
        /\ Len(ce.corners) = 4
        /\ Len(ce.edges) = 4 * (side - 2)

\* C7 as stated: for a consistent puzzle of k * k tiles, 4 tiles have degree
\* 2, 4(k - 2) have degree 3, the rest degree 4, and get_corners_and_edges
\* returns the tiles of degree 2 as corners and those of degree 3 as edges.
C7_DegreesAnyK ==
    NeighborsKnown => \E adj \in {Adjacency} : ConsistentWith(adj) => DegreesOfGrid(adj)

\* C7 amended: the same for k >= 2 (a single tile has no neighbour).
C7_DegreesFromK2 ==
    NeighborsKnown =>
        \E adj \in {Adjacency} : (ConsistentWith(adj) /\ side >= 2) => DegreesOfGrid(adj)

C7_Witness ==
    /\ NeighborsKnown /\ Consistent /\ side = 3
    /\ Len(get_corners_and_edges(neighbors).edges) = 4

----------------------------------------------------------------------------
(* Day 20: parse (SpecParse). *)

\* What the text of one tile can have wrong.
HeaderMalformed(ls) == ls = << >> \/ ~parse_header(ls).ok
NoPixelRows(ls) == Len(ls) <= 1
RowsDiffer(ls) == \E r \in 2..Len(ls) : Len(ls[r]) # Len(ls[2])
NotSquare(ls) == Len(ls) >= 2 /\ Len(ls) - 1 # Len(ls[2])
BadPixel(ls) == \E r \in 2..Len(ls) : \E x \in 1..Len(ls[r]) : ls[r][x] \notin {"#", "."}
TileMalformed(text) ==
    LET ls == lines(text) IN
    HeaderMalformed(ls) \/ NoPixelRows(ls) \/ RowsDiffer(ls) \/ NotSquare(ls) \/ BadPixel(ls)

\* C8: parse returns an error (no tile list, no panic) whenever some tile
\* has a malformed header, is not square, has rows of different lengths or
\* no row at all, or holds a character other than '#' and '.'.
C8_ParseErrors ==
    (parsed # NotRun /\ \E t \in SetOf(split_blank(input)) : TileMalformed(t))
        => (~IsPanic(parsed) /\ ~parsed.ok)

----------------------------------------------------------------------------
(* Day 20: Grid::transform (SpecGrid). *)

\* C9: transform(true, true, false) twice gives back the grid; on a square
\* grid transform(false, false, true) twice gives back the grid.
C9_TransformRoundTrip ==
    /\ ops = << << TRUE, TRUE, FALSE >>, << TRUE, TRUE, FALSE >> >> => grid = grid0
    /\ (ops = << << FALSE, FALSE, TRUE >>, << FALSE, FALSE, TRUE >> >> /\ grid0.width = grid0.height)
            => grid = grid0

\* Both round trips made on grids that the single call changes.
C9_Witness ==
    /\ Len(ops) = 2 /\ ops[1] = ops[2] /\ grid = grid0
    /\ \/ ops[1] = << TRUE, TRUE, FALSE >> /\ grid0 = Numbered(3, 2)
       \/ ops[1] = << FALSE, FALSE, TRUE >> /\ grid0 = Numbered(3, 3)

----------------------------------------------------------------------------
(* Day 20: Tile::border_masks (SpecTile). *)

\* The low n bits of m in reverse order.
BitReverse(m, n) == SumBits({n - 1 - b : b \in {b \in 0..(n - 1) : (m \div (2 ^ b)) % 2 = 1}})

\* The two signatures of every edge are bit-reversals of each other over the
\* length of the edge.
ReversedPairs ==
    /\ ~IsPanic(masks)
    /\ At(masks, 1) = BitReverse(At(masks, 0), tile.grid.width)
    /\ At(masks, 0) = BitReverse(At(masks, 1), tile.grid.width)
    /\ At(masks, 3) = BitReverse(At(masks, 2), tile.grid.width)
    /\ At(masks, 2) = BitReverse(At(masks, 3), tile.grid.width)
    /\ At(masks, 5) = BitReverse(At(masks, 4), tile.grid.height)
    /\ At(masks, 4) = BitReverse(At(masks, 5), tile.grid.height)
    /\ At(masks, 7) = BitReverse(At(masks, 6), tile.grid.height)
    /\ At(masks, 6) = BitReverse(At(masks, 7), tile.grid.height)

----------------------------------------------------------------------------
(* Day 20: construct_combiend_grid (Spec). *)

\* The grid of the tile in cell (col, row) of the placement after the
\* transform its orientation code c stands for: mirror_x = c & 1,
\* mirror_y = c & 2, transpose = c & 4.
TurnedTile(col, row) ==
    LET c == Index(orientation, col, row) IN
    transform(At(tiles, Index(placement, col, row)).grid,
              c % 2 = 1, (c \div 2) % 2 = 1, (c \div 4) % 2 = 1)

\* C11: construct_combiend_grid returns a square canvas of side
\* (tile_side - 2) * k; for every placement cell (col, row) and all
\* 0 <= i, j < tile_side - 2 the canvas pixel (col * (tile_side - 2) + i,
\* row * (tile_side - 2) + j) is pixel (i + 1, j + 1) of the cell's turned
\* tile, and these pixels are all the pixels of the canvas, each met once.
C11_AssembledCanvas ==
    (large_grid # NotRun /\ ~IsPanic(large_grid)) =>
        LET k == placement.width
            inner == tiles[1].grid.width - 2
        IN  /\ large_grid.width = inner * k
            /\ large_grid.height = inner * k
            /\ Len(large_grid.data) = (inner * k) * (inner * k)
            /\ \A col \in 0..(k - 1), row \in 0..(k - 1) :
                \E turned \in {TurnedTile(col, row)} :
                    \A i \in 0..(inner - 1), j \in 0..(inner - 1) :
                        Index(large_grid, col * inner + i, row * inner + j)
                            = Index(turned, i + 1, j + 1)
            /\ \A X \in 0..(inner * k - 1), Y \in 0..(inner * k - 1) :
                Cardinality({c \in (0..(k - 1)) \X (0..(k - 1)) :
                                /\ c[1] * inner <= X /\ X < (c[1] + 1) * inner
                                /\ c[2] * inner <= Y /\ Y < (c[2] + 1) * inner}) = 1

\* The test's puzzle assembled: 3 x 3 tiles of side 10 give a canvas of side
\* 24 with 303 On pixels, some tile being turned by a transpose.
C11_Witness ==
    /\ large_grid # NotRun /\ ~IsPanic(large_grid)
    /\ large_grid.width = 24 /\ CountOn(large_grid) = 303
    /\ \E col \in 0..2, row \in 0..2 : Index(orientation, col, row) >= 4

----------------------------------------------------------------------------
(* Day 20: Grid::transform (SpecGrid). *)

\* Every row reversed: cell (x, y) takes the value of cell (width - 1 - x, y).
HorizontalFlip(g) ==
    [g EXCEPT !.data = [i \in 1..Len(g.data) |->
        g.data[(g.width - 1 - ((i - 1) % g.width)) + g.width * ((i - 1) \div g.width) + 1]]]

\* The order of the rows reversed: cell (x, y) takes the value of cell
\* (x, height - 1 - y).
VerticalFlip(g) ==
    [g EXCEPT !.data = [i \in 1..Len(g.data) |->
        g.data[((i - 1) % g.width) + g.width * (g.height - 1 - ((i - 1) \div g.width)) + 1]]]

\* Cell (x, y) exchanged with cell (y, x), on a square grid.
Transposed(g) ==
    [g EXCEPT !.data = [i \in 1..Len(g.data) |->
        g.data[((i - 1) \div g.width) + g.width * ((i - 1) % g.width) + 1]]]

\* The flips and the transpose one after the other, a transpose of a grid
\* that is not square being a fault.
FlipsThenTranspose(g, mirror_x, mirror_y, transpose) ==
    LET a == IF mirror_x THEN HorizontalFlip(g) ELSE g
        b == IF mirror_y THEN VerticalFlip(a) ELSE a
    IN  IF ~transpose THEN b
        ELSE IF g.width = g.height THEN Transposed(b)
        ELSE Panic

\* C17 as stated: for every grid and every combination of flags,
\* transform(mirror_x, mirror_y, transpose) gives the grid that a horizontal
\* flip if mirror_x, then a vertical flip if mirror_y, then a transpose if
\* transpose give, and faults when transpose is set on a grid that is not
\* square.
C17_TransformAnyGrid ==
    Len(ops) = 1 => grid = FlipsThenTranspose(grid0, ops[1][1], ops[1][2], ops[1][3])

\* The same restricted to the grids whose width is not 0, where chunks_mut
\* has a chunk size to work with.
C17_TransformNonEmptyRows ==
    (Len(ops) = 1 /\ grid0.width > 0)
        => grid = FlipsThenTranspose(grid0, ops[1][1], ops[1][2], ops[1][3])

\* A horizontal flip and a transpose of the 3 x 3 grid 0..8, and a fault on a
\* grid of 3 x 2 are both met.
C17_Witness ==
    /\ Len(ops) = 1
    /\ \/ /\ grid0 = Numbered(3, 3) /\ ops[1] = << TRUE, FALSE, TRUE >>
          /\ grid = [data |-> << 2, 5, 8, 1, 4, 7, 0, 3, 6 >>, width |-> 3, height |-> 3]
       \/ /\ grid0 = Numbered(3, 2) /\ ops[1] = << FALSE, TRUE, TRUE >>
          /\ IsPanic(grid)

----------------------------------------------------------------------------
(* Day 20: the lookup tables of orient_tiles against transform (SpecTile). *)

\* border_masks of the tile after the transform construct_combiend_grid
\* applies for the code c.
MasksAfterTransform(c) == border_masks([tile EXCEPT !.grid = OrientedGrid(tile.grid, c)])

\* What orient_tiles reads for the code c from the raw masks is what
\* border_masks gives in slots 0, 6, 2 and 4 after the transform.
TablesAgree(c) ==
    \E turned \in {MasksAfterTransform(c)} :
        /\ At(masks, At(TopSlot, c)) = At(turned, 0)
        /\ At(masks, At(RightSlot, c)) = At(turned, 6)
        /\ At(masks, At(BottomSlot, c)) = At(turned, 2)
        /\ At(masks, At(LeftSlot, c)) = At(turned, 4)

\* C18: for every square tile and every orientation code c in 0..7, the top,
\* right, bottom and left signatures orient_tiles reads from the raw
\* border_masks through its four lookup tables equal slots 0, 6, 2 and 4 of
\* border_masks on the tile's grid after
\* transform(c & 1 != 0, c & 2 != 0, c & 4 != 0).
C18_TablesAgreeWithTransform ==
    (masks # NotRun /\ ~IsPanic(masks) /\ tile.grid.width = tile.grid.height)
        => \A c \in 0..7 : TablesAgree(c)

\* A 3 x 3 tile whose eight signatures are not all the same four values read
\* twice: the top row reads 1 forwards and 4 backwards, the left column 3 and
\* 6, and the codes 5 and 6 read different top signatures.
C18_Witness ==
    /\ masks # NotRun /\ ~IsPanic(masks)
    /\ tile.grid.width = 3 /\ tile.grid.height = 3
    /\ At(masks, 0) = 1 /\ At(masks, 1) = 4
    /\ At(masks, 4) = 3 /\ At(masks, 5) = 6
    /\ At(masks, At(TopSlot, 5)) # At(masks, At(TopSlot, 6))
    /\ \A c \in 0..7 : TablesAgree(c)

----------------------------------------------------------------------------
(* Day 20: orient_tiles (Spec). *)

\* The codes that pass the four tests of lines 360-363 for the cell (x, y).
CodesFor(x, y) == {ix \in 0..7 : OrientOk(placement, frames, x, y, ix)}

\* The signatures of tile i (1-based) turned by the code o, as
\* construct_combiend_grid would turn it.
MasksTurned(i, o) == border_masks([id |-> 0, grid |-> OrientedGrid(tiles[i].grid, o)])

\* Tile i turned by o fits the cut: each side that faces another cell of the
\* cut shows a signature of the tile of that cell.
FitsCut(i, o) ==
    \E turned \in {MasksTurned(i, o)} :
    \A j \in 1..Len(tiles) :
        LET dx == layout[j][1] - layout[i][1]
            dy == layout[j][2] - layout[i][2]
            theirs == SetOf(border_masks(tiles[j]))
        IN  /\ (dx = 1 /\ dy = 0) => At(turned, 6) \in theirs
            /\ (dx = -1 /\ dy = 0) => At(turned, 4) \in theirs
            /\ (dx = 0 /\ dy = 1) => At(turned, 2) \in theirs
            /\ (dx = 0 /\ dy = -1) => At(turned, 0) \in theirs

\* A consistent puzzle whose tiles are pieces of one image: the adjacency
\* graph is the grid graph of the cut and every tile can be turned to fit.
PiecesOfOneImage == Consistent /\ \A i \in 1..Len(tiles) : \E o \in 0..7 : FitsCut(i, o)

----------------------------------------------------------------------------
(* Day 20: the slots of border_masks (SpecTile). *)

\* The four edges of a grid as pixel sequences: top and bottom from the left,
\* left and right from the top.
TopEdge(g) == [i \in 1..g.width |-> Index(g, i - 1, 0)]
BottomEdge(g) == [i \in 1..g.width |-> Index(g, i - 1, g.height - 1)]
LeftEdge(g) == [i \in 1..g.height |-> Index(g, 0, i - 1)]
RightEdge(g) == [i \in 1..g.height |-> Index(g, g.width - 1, i - 1)]

\* Bit i set iff the i-th pixel (from 0) of the edge is On; and the same
\* counted from the other end.
Unreversed(edge) == SumBits({i \in 0..(Len(edge) - 1) : edge[i + 1] = On})
Reversed(edge) == Unreversed(Reverse(edge))

\* C20 as stated: border_masks returns its 8 signatures in the slot order
\* top, top-reversed, bottom, bottom-reversed, left-reversed, left, right,
\* right-reversed; the unreversed signature of an edge has bit i set iff the
\* i-th pixel of the edge, from the left for top and bottom and from the top
\* for left and right, is On, the reversed one counts from the other end.
C20_SlotsLeftReversedFirst ==
    masks # NotRun =>
        /\ ~IsPanic(masks)
        /\ masks = << Unreversed(TopEdge(tile.grid)), Reversed(TopEdge(tile.grid)),
                      Unreversed(BottomEdge(tile.grid)), Reversed(BottomEdge(tile.grid)),
                      Reversed(LeftEdge(tile.grid)), Unreversed(LeftEdge(tile.grid)),
                      Unreversed(RightEdge(tile.grid)), Reversed(RightEdge(tile.grid)) >>

\* C20 amended: for a tile of side at most 16 the slot order is top,
\* top-reversed, bottom, bottom-reversed, left, left-reversed, right,
\* right-reversed, with the same reading of unreversed and reversed.
C20_SlotsLeftFirst ==
    (masks # NotRun /\ tile.grid.width <= 16 /\ tile.grid.height <= 16) =>
        /\ ~IsPanic(masks)
        /\ masks = << Unreversed(TopEdge(tile.grid)), Reversed(TopEdge(tile.grid)),
                      Unreversed(BottomEdge(tile.grid)), Reversed(BottomEdge(tile.grid)),
                      Unreversed(LeftEdge(tile.grid)), Reversed(LeftEdge(tile.grid)),
                      Unreversed(RightEdge(tile.grid)), Reversed(RightEdge(tile.grid)) >>

\* A 2 x 3 tile whose left column is On, On, Off from the top and whose right
\* column is Off, Off, On: slot 4 is 3, slot 5 is 6, slot 6 is 4, slot 7 is 1.
C20_Witness ==
    /\ masks # NotRun /\ ~IsPanic(masks)
    /\ tile.grid.width = 2 /\ tile.grid.height = 3
    /\ LeftEdge(tile.grid) = << On, On, Off >>
    /\ RightEdge(tile.grid) = << Off, Off, On >>
    /\ At(masks, 4) = 3 /\ At(masks, 5) = 6 /\ At(masks, 6) = 4 /\ At(masks, 7) = 1

----------------------------------------------------------------------------
(* day_08.rs: Instruction, part_1, part_2 *)

Acc(x) == [op |-> "acc", arg |-> x]
Nop(x) == [op |-> "nop", arg |-> x]
Jmp(x) == [op |-> "jmp", arg |-> x]

\* ip.checked_add_signed(x as isize).unwrap_or(instructions.len()): the sum,
\* or the length of the program when the sum is negative.
JumpTarget(at, x, len) == IF at + x < 0 THEN len ELSE at + x

\* part_2, the key of a search state in `visited`: switched.unwrap_or(n) * n + ip
VisitedKey(at, switched, n) == (IF switched.some THEN switched.v ELSE n) * n + at

\* part_2, lines 81-103: what the search pushes for the state (ip, switched,
\* accum), in the order of the push_back calls.
Part2Pushes(instrs, at, switched, accum) ==
    LET n == Len(instrs)
        instr == At(instrs, at)
    IN  CASE instr.op = "acc" -> << << at + 1, switched, accum + instr.arg >> >>
          [] instr.op = "jmp" ->
                << << JumpTarget(at, instr.arg, n), switched, accum >> >>
                \o (IF switched.some THEN << >> ELSE << << at + 1, Some(at), accum >> >>)
          [] instr.op = "nop" ->
                << << at + 1, switched, accum >> >>
                \o (IF switched.some THEN << >>
                    ELSE << << JumpTarget(at, instr.arg, n), Some(at), accum >> >>)

\* part_2, lines 73-106: the loop over the queue `pending`; `seen` is the
\* vector `visited`.
RECURSIVE Part2Loop(_, _, _)
Part2Loop(instrs, pending, seen) ==
    IF pending = << >> THEN 0
    ELSE
        LET n == Len(instrs)
            at == Head(pending)[1]
            switched == Head(pending)[2]
            accum == Head(pending)[3]
        IN  IF at >= n THEN accum
            ELSE IF At(seen, VisitedKey(at, switched, n))
            THEN CHOOSE r \in {Part2Loop(instrs, rest, seen) : rest \in {Tail(pending)}} : TRUE
            ELSE CHOOSE r \in
                    {Part2Loop(instrs, rest, marked) :
                        rest \in {Tail(pending) \o Part2Pushes(instrs, at, switched, accum)},
                        marked \in {SetAt(seen, VisitedKey(at, switched, n), TRUE)}} : TRUE

part_2_day08(instrs) ==
    LET n == Len(instrs) IN
    Part2Loop(instrs, << << 0, None, 0 >> >>, [i \in 1..(n * (n + 1)) |-> FALSE])

----------------------------------------------------------------------------
(* SpecDay08: the programs and the run of part_1 (one action for each way *)
(* through the body of its loop) and of part_2.                           *)

\* Programs of up to MaxInstructions instructions.
MaxInstructions == 3
\* The arguments of jmp and nop: back beyond the first instruction and on
\* beyond the position after the last one.
Offsets == (-2)..2
\* The acc at position i adds (-2) ^ i: the sum tells which ones were run.
AccArgument(i) == (-2) ^ i
Shapes ==
    {Acc(0)} \cup {Nop(x) : x \in Offsets}
            \cup {Jmp(x) : x \in Offsets}
ProgramOf(shape) ==
    [i \in 1..Len(shape) |-> IF shape[i].op = "acc" THEN Acc(AccArgument(i - 1)) ELSE shape[i]]
Programs == UNION {{ProgramOf(shape) : shape \in [1..n -> Shapes]} : n \in 0..MaxInstructions}

\* The program of the tests (lines 114-124).
EXAMPLE_day08 ==
    << Nop(0), Acc(1), Jmp(4), Acc(3), Jmp(-3), Acc(-99), Acc(1), Jmp(-4), Acc(6) >>

OutsideDay08 == << varsDay20, varsDay11, varsDay23, varsDay18, varsDay16, varsDay22 >>

InitDay08 ==
    /\ instructions \in Programs \cup {EXAMPLE_day08}
    /\ at08 = "part_1"
    /\ ip = 0
    /\ accumulator = 0
    /\ visited = [i \in 1..Len(instructions) |-> FALSE]
    /\ halted1 = NotRun /\ halted2 = NotRun
    /\ IdleParse /\ IdleGrid /\ IdleTile /\ IdlePuzzle
    /\ IdleDay11 /\ IdleDay23 /\ IdleDay18 /\ IdleDay16 /\ IdleDay22

\* part_1, lines 47 and 65: instructions.get(ip) is None
Part1End ==
    /\ at08 = "part_1"
    /\ ip >= Len(instructions)
    /\ halted1' = Returned(accumulator)
    /\ at08' = "part_2"
    /\ UNCHANGED << instructions, ip, accumulator, visited, halted2 >>
    /\ UNCHANGED OutsideDay08

\* A faulty return that runs the instruction a second time before it returns.
Part1Revisit_RunsItAgain ==
    /\ at08 = "part_1"
    /\ ip < Len(instructions)
    /\ At(visited, ip)
    /\ halted1' = Returned(IF At(instructions, ip).op = "acc"
                           THEN accumulator + At(instructions, ip).arg ELSE accumulator)
    /\ at08' = "part_2"
    /\ UNCHANGED << instructions, ip, accumulator, visited, halted2 >>
    /\ UNCHANGED OutsideDay08

\* part_1, lines 48-50: the instruction was run before
Part1Revisit ==
    /\ at08 = "part_1"
    /\ ip < Len(instructions)
    /\ At(visited, ip)
    /\ halted1' = Returned(accumulator)
    /\ at08' = "part_2"
    /\ UNCHANGED << instructions, ip, accumulator, visited, halted2 >>
    /\ UNCHANGED OutsideDay08

\* part_1, lines 51-53 and 63: acc
Part1Acc ==
    /\ at08 = "part_1"
    /\ ip < Len(instructions)
    /\ ~At(visited, ip)
    /\ At(instructions, ip).op = "acc"
    /\ visited' = SetAt(visited, ip, TRUE)
    /\ accumulator' = accumulator + At(instructions, ip).arg
    /\ ip' = ip + 1
    /\ UNCHANGED << instructions, at08, halted1, halted2 >>
    /\ UNCHANGED OutsideDay08

\* part_1, lines 51-52, 54 and 63: nop
Part1Nop ==
    /\ at08 = "part_1"
    /\ ip < Len(instructions)
    /\ ~At(visited, ip)
    /\ At(instructions, ip).op = "nop"
    /\ visited' = SetAt(visited, ip, TRUE)
    /\ ip' = ip + 1
    /\ UNCHANGED << instructions, at08, accumulator, halted1, halted2 >>
    /\ UNCHANGED OutsideDay08

\* part_1, lines 51-52 and 55-60: jmp
Part1Jmp ==
    /\ at08 = "part_1"
    /\ ip < Len(instructions)
    /\ ~At(visited, ip)
    /\ At(instructions, ip).op = "jmp"
    /\ visited' = SetAt(visited, ip, TRUE)
    /\ ip' = JumpTarget(ip, At(instructions, ip).arg, Len(instructions))
    /\ UNCHANGED << instructions, at08, accumulator, halted1, halted2 >>
    /\ UNCHANGED OutsideDay08

\* part_2, lines 69-107
Part2 ==
    /\ at08 = "part_2"
    /\ halted2' = Returned(part_2_day08(instructions))
    /\ at08' = "returned"
    /\ UNCHANGED << instructions, ip, accumulator, visited, halted1 >>
    /\ UNCHANGED OutsideDay08

NextDay08 == Part1End \/ Part1Revisit \/ Part1Acc \/ Part1Nop \/ Part1Jmp \/ Part2

SpecDay08 == InitDay08 /\ [][NextDay08]_vars

\* part_1 and part_2 are sequential code: a step that can be taken is taken.
SpecDay08Fair == SpecDay08 /\ WF_vars(NextDay08)

----------------------------------------------------------------------------
(* Day 8: part_1 and part_2 (SpecDay08). *)

\* The machine of the puzzle: acc adds its argument and goes to the next
\* instruction, nop goes to the next instruction, jmp moves the instruction
\* pointer by its argument.  The run from (at, acc) stops when the instruction
\* at `at` was run before ("repeat"), when `at` is the position right after
\* the last instruction ("end"), or when `at` is no position at all
\* ("outside").
RECURSIVE Run(_, _, _, _)
Run(prog, at, acc, ran) ==
    IF at \in ran THEN [why |-> "repeat", acc |-> acc]
    ELSE IF at = Len(prog) THEN [why |-> "end", acc |-> acc]
    ELSE IF at < 0 \/ at > Len(prog) THEN [why |-> "outside", acc |-> acc]
    ELSE LET instr == prog[at + 1] IN
         CASE instr.op = "acc" -> Run(prog, at + 1, acc + instr.arg, ran \cup {at})
           [] instr.op = "nop" -> Run(prog, at + 1, acc, ran \cup {at})
           [] instr.op = "jmp" -> Run(prog, at + instr.arg, acc, ran \cup {at})
RunOf(prog) == Run(prog, 0, 0, {})

Part1Done == at08 \in {"part_2", "returned"}
Part2Done == at08 = "returned"

\* C12: for every program part_1 terminates, and it returns the accumulator
\* as it stands right before an instruction would be run a second time (as
\* it stands at the end, for a program that runs no instruction twice).
C12_Part1Returns == <>(halted1 = Returned(RunOf(instructions).acc))

\* The program of the tests is stopped before its second instruction runs
\* again, with 5 in the accumulator (test_part_1).
C12_Witness ==
    /\ Part1Done
    /\ instructions = EXAMPLE_day08
    /\ RunOf(instructions).why = "repeat"
    /\ At(visited, 1) /\ ip = 1
    /\ halted1 = Returned(5)

\* One jmp changed into a nop or one nop into a jmp, at position i (from 1).
Changed(prog, i) ==
    [prog EXCEPT ![i] = IF prog[i].op = "jmp" THEN Nop(prog[i].arg) ELSE Jmp(prog[i].arg)]
Changes(prog) == {i \in 1..Len(prog) : prog[i].op \in {"jmp", "nop"}}
\* The changes after which the program terminates: the instruction pointer
\* reaches the position right after the last instruction.
Repairs(prog) == {i \in Changes(prog) : RunOf(Changed(prog, i)).why = "end"}

\* C13: for a program that loops forever as written and that exactly one
\* change of a jmp into a nop or of a nop into a jmp makes terminate, part_2
\* returns the accumulator at the end of the run of the changed program.
C13_Part2Repairs ==
    (Part2Done /\ RunOf(instructions).why = "repeat")
        => \E fixes \in {Repairs(instructions)} :
            \A i \in fixes :
                fixes = {i} => halted2 = Returned(RunOf(Changed(instructions, i)).acc)

\* The same for the programs in which no change sends the instruction pointer
\* before the first instruction or beyond the position after the last one.
StaysInside(prog) == \A i \in Changes(prog) : RunOf(Changed(prog, i)).why # "outside"
Part2RepairsInside ==
    (Part2Done /\ RunOf(instructions).why = "repeat" /\ StaysInside(instructions))
        => \E fixes \in {Repairs(instructions)} :
            \A i \in fixes :
                fixes = {i} => halted2 = Returned(RunOf(Changed(instructions, i)).acc)

\* The program of the tests: changing its last jmp lets it end with 8 in the
\* accumulator (test_part_2).
C13_Witness ==
    /\ Part2Done
    /\ instructions = EXAMPLE_day08
    /\ RunOf(instructions).why = "repeat"
    /\ Repairs(instructions) = {8}
    /\ halted2 = Returned(8)

----------------------------------------------------------------------------
(* day_11.rs: Grid, Tile, Simulation, part_1, part_2 *)

Floor == "Floor"
Empty == "Empty"
Occupied == "Occupied"
NearIntolerant == "NearIntolerant"
FarTolerant == "FarTolerant"

\* Grid::new_default for the counts: u8::default() in every cell.
Grid_new_default(width, height) ==
    [data |-> [i \in 1..(width * height) |-> 0],
     stride |-> width, width |-> width, height |-> height]

\* Grid::index: (row, column); the assertion of lines 81-86 fails otherwise.
InGrid(g, r, c) == r >= 0 /\ r < g.height /\ c >= 0 /\ c < g.width
Cell(g, r, c) == g.data[r * g.stride + c + 1]

\* Simulation::new
Simulation_new(g) == [state |-> g, counts |-> Grid_new_default(g.width, g.height)]

\* isize::MAX (line 151) as the largest integer of the model checker; no grid
\* here is a millionth as wide.
FarDistance == 2147483647

\* tick, lines 149-152
max_distance_of(strat) == IF strat = NearIntolerant THEN 1 ELSE FarDistance

\* tick, lines 171-188: what the loop over `distance` adds to *counts for
\* the direction (dx, dy), from `distance` on.
RECURSIVE Look(_, _, _, _, _, _, _)
Look(state, x, y, dx, dy, distance, max_distance) ==
    IF distance > max_distance THEN 0
    ELSE
        LET x1 == x + distance * dx
            y1 == y + distance * dy
        IN  IF x1 >= 0 /\ x1 < state.width /\ y1 >= 0 /\ y1 < state.height
            THEN CASE Cell(state, y1, x1) = Floor ->
                        Look(state, x, y, dx, dy, distance + 1, max_distance)
                   [] Cell(state, y1, x1) = Empty -> 0
                   [] Cell(state, y1, x1) = Occupied -> 1
            ELSE 0

\* tick, lines 161-170
Directions ==
    << << -1, -1 >>, << -1, 0 >>, << -1, 1 >>, << 0, 1 >>,
       << 1, 1 >>, << 1, 0 >>, << 1, -1 >>, << 0, -1 >> >>

\* tick, lines 160-189: *counts for the cell (x, y)
CountFor(state, x, y, max_distance) ==
    LET seen == [d \in 1..8 |->
                    Look(state, x, y, Directions[d][1], Directions[d][2], 1, max_distance)]
    IN  seen[1] + seen[2] + seen[3] + seen[4] + seen[5] + seen[6] + seen[7] + seen[8]

\* tick, lines 200-206
new_tile(tile_, counts, strat) ==
    IF tile_ = Empty /\ counts = 0 THEN Occupied
    ELSE IF tile_ = Occupied /\ counts = 4 /\ strat = NearIntolerant THEN Empty
    ELSE IF tile_ = Occupied /\ counts >= 5 /\ counts <= 8 THEN Empty
    ELSE tile_

\* A faulty tick that updates the seats one after the other, each from the
\* seats as they are by then.
RECURSIVE SweepInPlace(_, _, _)
SweepInPlace(state, i, strat) ==
    IF i >= state.width * state.height THEN state
    ELSE CHOOSE r \in
            {SweepInPlace(next, i + 1, strat) :
                next \in {[state EXCEPT !.data[i + 1] =
                            new_tile(state.data[i + 1],
                                     CountFor(state, i % state.width, i \div state.width,
                                              max_distance_of(strat)),
                                     strat)]}} : TRUE
tick_InPlace(s, strat) ==
    IF s.counts.stride = 0 THEN Panic
    ELSE LET state == SweepInPlace(s.state, 0, strat) IN
         [sim |-> [state |-> state, counts |-> s.counts],
          any_change |-> state # s.state]

\* Simulation::tick: chunks_mut(stride) panics for a stride of 0; the first
\* pass fills counts from state, the second takes every tile from its count.
tick(s, strat) ==
    IF s.counts.stride = 0 THEN Panic
    ELSE
        LET width == s.counts.width
            height == s.counts.height
            counts == [s.counts EXCEPT !.data =
                        [i \in 1..(width * height) |->
                            CountFor(s.state, (i - 1) % width, (i - 1) \div width,
                                     max_distance_of(strat))]]
            state == [s.state EXCEPT !.data =
                        [i \in 1..(width * height) |->
                            new_tile(s.state.data[i], counts.data[i], strat)]]
        IN  [sim |-> [state |-> state, counts |-> counts],
             any_change |-> \E i \in 1..(width * height) : state.data[i] # s.state.data[i]]

\* part_1 / part_2, lines 230-234: the Occupied tiles of sim.state.data
CountOccupied(data) == Cardinality({i \in 1..Len(data) : data[i] = Occupied})

----------------------------------------------------------------------------
(* SpecDay11: part_1 (NearIntolerant) or part_2 (FarTolerant) on a layout, *)
(* one action for each call of tick.                                      *)

\* Layouts of up to 3 x 3 cells with at most MaxSeats seats.
MaxSeats == 6
Extents == (0..3) \X (1..3)
\* The seats start all Empty, all Occupied, or every other one Occupied.
Fills == {"empty", "occupied", "mixed"}
SeatsBefore(S, i) == Cardinality({j \in S : j < i})
Layout(w, h, S, fill) ==
    [data |-> [i \in 1..(w * h) |->
                IF i \notin S THEN Floor
                ELSE IF fill = "empty" THEN Empty
                ELSE IF fill = "occupied" THEN Occupied
                ELSE IF SeatsBefore(S, i) % 2 = 0 THEN Occupied ELSE Empty],
     stride |-> w, width |-> w, height |-> h]
Layouts ==
    UNION {{Layout(e[1], e[2], S, fill) :
                S \in {S \in SUBSET (1..(e[1] * e[2])) : Cardinality(S) <= MaxSeats},
                fill \in Fills} : e \in Extents}

\* A layout of Empty seats from rows of 'L' and '.'.
FromRows(rows) ==
    [data |-> [i \in 1..(Len(rows) * Len(rows[1])) |->
                IF rows[((i - 1) \div Len(rows[1])) + 1][((i - 1) % Len(rows[1])) + 1] = "L"
                THEN Empty ELSE Floor],
     stride |-> Len(rows[1]), width |-> Len(rows[1]), height |-> Len(rows)]

\* The layout of the tests (lines 253-264).
EXAMPLE_day11 ==
    FromRows(<< << "L", ".", "L", "L", ".", "L", "L", ".", "L", "L" >>,
                << "L", "L", "L", "L", "L", "L", "L", ".", "L", "L" >>,
                << "L", ".", "L", ".", "L", ".", ".", "L", ".", "." >>,
                << "L", "L", "L", "L", ".", "L", "L", ".", "L", "L" >>,
                << "L", ".", "L", "L", ".", "L", "L", ".", "L", "L" >>,
                << "L", ".", "L", "L", "L", "L", "L", ".", "L", "L" >>,
                << ".", ".", "L", ".", "L", ".", ".", ".", ".", "." >>,
                << "L", "L", "L", "L", "L", "L", "L", "L", "L", "L" >>,
                << "L", ".", "L", "L", "L", "L", "L", "L", ".", "L" >>,
                << "L", ".", "L", "L", "L", "L", "L", ".", "L", "L" >> >>)

\* Twelve seats every one of which has four neighbours.
Octagon ==
    FromRows(<< << ".", "L", "L", "." >>,
                << "L", "L", "L", "L" >>,
                << "L", "L", "L", "L" >>,
                << ".", "L", "L", "." >> >>)

OutsideDay11 == << varsDay20, varsDay08, varsDay23, varsDay18, varsDay16, varsDay22 >>

InitDay11 ==
    /\ seat_layout \in Layouts \cup {EXAMPLE_day11, Octagon}
    /\ strategy \in {NearIntolerant, FarTolerant}
    /\ sim = Simulation_new(seat_layout)
    /\ before = seat_layout
    /\ any_change = NotRun
    /\ at11 = "loop"
    /\ occupied = NotRun
    /\ IdleParse /\ IdleGrid /\ IdleTile /\ IdlePuzzle
    /\ IdleDay08 /\ IdleDay23 /\ IdleDay18 /\ IdleDay16 /\ IdleDay22

\* part_1 line 229 / part_2 line 240: one call of sim.tick
Tick ==
    /\ at11 = "loop"
    /\ \E t \in {tick(sim, strategy)} :
        /\ ~IsPanic(t)
        /\ sim' = t.sim
        /\ before' = sim.state
        /\ any_change' = Returned(t.any_change)
        /\ at11' = IF t.any_change THEN "loop" ELSE "count"
    /\ UNCHANGED << seat_layout, strategy, occupied >>
    /\ UNCHANGED OutsideDay11

\* sim.tick panics
TickPanics ==
    /\ at11 = "loop"
    /\ IsPanic(tick(sim, strategy))
    /\ at11' = "panicked"
    /\ UNCHANGED << seat_layout, strategy, sim, before, any_change, occupied >>
    /\ UNCHANGED OutsideDay11

\* part_1 lines 230-234 / part_2 lines 241-245
CountSeats ==
    /\ at11 = "count"
    /\ occupied' = Returned(CountOccupied(sim.state.data))
    /\ at11' = "returned"
    /\ UNCHANGED << seat_layout, strategy, sim, before, any_change >>
    /\ UNCHANGED OutsideDay11

NextDay11 == Tick \/ TickPanics \/ CountSeats

SpecDay11 == InitDay11 /\ [][NextDay11]_vars

----------------------------------------------------------------------------
(* Day 11: the seat simulation (SpecDay11). *)

\* The cell k steps from (r, c) in the direction (dr, dc) is in the grid and
\* holds an Occupied seat, and the cells before it are Floor.
SeesOccupied(g, r, c, dr, dc, k) ==
    /\ InGrid(g, r + k * dr, c + k * dc)
    /\ Cell(g, r + k * dr, c + k * dc) = Occupied
    /\ \A j \in 1..(k - 1) : Cell(g, r + j * dr, c + j * dc) = Floor

\* How far a seat looks: to the next cell, or to the edge of the grid.
Reach(g, strat) == IF strat = NearIntolerant THEN 1 ELSE Max({g.width, g.height})
\* The occupied seats that count for the seat at (r, c): one for each of the
\* eight directions in which an Occupied seat is the first seat within reach.
OccupiedAround(g, r, c, strat) ==
    Cardinality({d \in {-1, 0, 1} \X {-1, 0, 1} :
        /\ d # << 0, 0 >>
        /\ \E k \in 1..Reach(g, strat) : SeesOccupied(g, r, c, d[1], d[2], k)})

\* The number of occupied seats at which an Occupied seat is left.
Tolerance(strat) == IF strat = NearIntolerant THEN 4 ELSE 5

\* All seats at once: every seat of the result from the seats of g.
NextSeats(g, strat) ==
    [g EXCEPT !.data = [i \in 1..(g.width * g.height) |->
        LET r == (i - 1) \div g.width
            c == (i - 1) % g.width
        IN  IF g.data[i] = Empty /\ OccupiedAround(g, r, c, strat) = 0 THEN Occupied
            ELSE IF g.data[i] = Occupied /\ OccupiedAround(g, r, c, strat) >= Tolerance(strat)
            THEN Empty
            ELSE g.data[i]]]

\* C14: part_1 and part_2 repeat tick until a tick changes no seat and return
\* the number of Occupied seats of that fixed point; a tick takes the new
\* state of every seat from the state of all seats before the tick; and tick
\* returns true iff at least one seat changed.
C14_SeatSimulation ==
    /\ any_change # NotRun =>
        /\ sim.state = NextSeats(before, strategy)
        /\ any_change.v <=> (sim.state # before)
        /\ any_change.v <=> (at11 = "loop")
    /\ at11 \in {"count", "returned"} =>
        /\ any_change = Returned(FALSE)
        /\ NextSeats(sim.state, strategy) = sim.state
    /\ at11 = "returned" => occupied = Returned(CountOccupied(sim.state.data))
    /\ (at11 = "panicked" \/ any_change = NotRun) => occupied = NotRun

\* The layout of the tests at its fixed point under the far rule, which
\* leaves 26 seats Occupied (test_part_2), after a tick that emptied a seat
\* that saw five occupied ones.
C14_Witness ==
    /\ seat_layout = EXAMPLE_day11
    /\ strategy = FarTolerant
    /\ at11 = "returned"
    /\ occupied = Returned(26)
    /\ any_change = Returned(FALSE)

----------------------------------------------------------------------------
(* day_23.rs: part_1 (VecDeque) and crab_cups (IndexList) *)

\* b'0', b'1', b'9'
Byte0 == 48
Byte1 == 49
Byte9 == 57

\* VecDeque::rotate_left, rotate_right, Iterator::position
RotateLeft(s, k) == [i \in 1..Len(s) |-> s[((i - 1 + k) % Len(s)) + 1]]
RotateRight(s, k) == [i \in 1..Len(s) |-> s[((i - 1 - k + Len(s)) % Len(s)) + 1]]
Position(s, v) == CHOOSE i \in 0..(Len(s) - 1) : s[i + 1] = v /\ \A j \in 1..i : s[j] # v

\* part_1, lines 15 and 17: the label before, 9 coming before 1
PreviousLabel(label) == IF label = Byte1 THEN Byte9 ELSE label - 1

\* part_1, lines 16-18
RECURSIVE SkipPicked(_, _, _, _)
SkipPicked(label, a, b, c) ==
    IF label = a \/ label = b \/ label = c THEN SkipPicked(PreviousLabel(label), a, b, c)
    ELSE label

\* part_1, lines 10-24: one move on the deque
MoveDeque(deque) ==
    LET front == deque[1]
        turned == RotateLeft(deque, 1)
        a == turned[1]
        b == turned[2]
        c == turned[3]
        rest == SubSeq(turned, 4, Len(turned))
        before_ == SkipPicked(PreviousLabel(front), a, b, c)
        index == Position(rest, before_)
    IN  RotateRight(<< a, b, c >> \o RotateLeft(rest, index + 1), index + 1)

\* part_1, lines 26-29: the labels after cup 1
FinishDeque(deque) == Tail(RotateLeft(deque, Position(deque, Byte1)))

\* IndexList: `order` is the sequence of indexes as the links give it, `value`
\* the value stored at each index; an index keeps its value when it is moved.
\* with_capacity and extend(0..=total_cups), lines 56-57
IndexList_of_range(total_cups) ==
    [order |-> [i \in 1..(total_cups + 1) |-> i - 1],
     value |-> [ix \in 0..total_cups |-> ix]]
remove_first(l) == [l EXCEPT !.order = Tail(@)]
Unlinked(order, ix) == SelectSeq(order, LAMBDA x : x # ix)
shift_index_to_front(l, ix) == [l EXCEPT !.order = << ix >> \o Unlinked(@, ix)]
shift_index_after(l, this, that) ==
    LET others == Unlinked(l.order, this)
        p == Position(others, that)
    IN  [l EXCEPT !.order =
            SubSeq(others, 1, p + 1) \o << this >> \o SubSeq(others, p + 2, Len(others))]
next_index(l, ix) ==
    LET p == Position(l.order, ix) IN
    IF p + 1 < Len(l.order) THEN Some(l.order[p + 2]) ELSE None
first_index(l) == l.order[1]
get(l, ix) == l.value[ix]

\* the macro next!, lines 65-70
NextAround(l, ix) == IF next_index(l, ix).some THEN next_index(l, ix).v ELSE first_index(l)

\* crab_cups, lines 62-64: the input from its last byte to its first
RECURSIVE ShiftAllToFront(_, _, _)
ShiftAllToFront(l, input_, k) ==
    IF k = 0 THEN l
    ELSE ShiftAllToFront(shift_index_to_front(l, input_[k] - Byte0), input_, k - 1)

\* crab_cups, lines 56-64
CupsLinked(input_, total_cups) ==
    ShiftAllToFront(remove_first(IndexList_of_range(total_cups)), input_, Len(input_))

\* crab_cups, lines 82-86 and 88-92
PreviousValue(t_value, total_cups) == IF t_value = 1 THEN total_cups ELSE t_value - 1

\* A faulty search that goes from cup 1 to the cup before the last one.
RECURSIVE TargetValue_WrapsShort(_, _, _, _, _)
TargetValue_WrapsShort(t_value, a_value, b_value, c_value, total_cups) ==
    IF t_value = a_value \/ t_value = b_value \/ t_value = c_value
    THEN TargetValue_WrapsShort(IF t_value = 1 THEN total_cups - 1 ELSE t_value - 1,
                                a_value, b_value, c_value, total_cups)
    ELSE t_value

\* crab_cups, lines 87-93
RECURSIVE TargetValue(_, _, _, _, _)
TargetValue(t_value, a_value, b_value, c_value, total_cups) ==
    IF t_value = a_value \/ t_value = b_value \/ t_value = c_value
    THEN TargetValue(PreviousValue(t_value, total_cups), a_value, b_value, c_value, total_cups)
    ELSE t_value

\* crab_cups, lines 73-98: one turn; the list and the current index after it
MoveLinked(l, cur, total_cups) ==
    LET a == NextAround(l, cur)
        b == NextAround(l, a)
        c == NextAround(l, b)
        t == TargetValue(PreviousValue(get(l, cur), total_cups),
                         get(l, a), get(l, b), get(l, c), total_cups)
        moved == shift_index_after(shift_index_after(shift_index_after(l, a, t), b, a), c, b)
    IN  [cups |-> moved, current |-> NextAround(moved, cur)]

\* test_crab, lines 111-122: the values after 1, around the list, as bytes
LabelsAfterOne(l) ==
    LET values == [i \in 1..Len(l.order) |-> get(l, l.order[i])]
        after == Tail(RotateLeft(values, Position(values, 1)))
    IN  [i \in 1..Len(after) |-> after[i] + Byte0]

----------------------------------------------------------------------------
(* SpecDay23: part_1(labels), then crab_cups(labels, 9, 100), one action   *)
(* for each pass through the loop.                                        *)

\* part_1 line 9, and the arguments of crab_cups in test_crab (line 109)
Turns == 100
TotalCups == 9

\* The arrangements: the first MaxMoved cups of a base arrangement in every
\* order, the circle then started at any cup.
MaxMoved == 4
EXAMPLE_day23 == << 51, 56, 57, 49, 50, 53, 52, 54, 55 >>
Ascending_day23 == [i \in 1..9 |-> Byte0 + i]
Orders(n) == {p \in [1..n -> 1..n] : \A i, j \in 1..n : p[i] = p[j] => i = j}
Reordered(base, p) == [i \in 1..Len(base) |-> IF i <= Len(p) THEN base[p[i]] ELSE base[i]]
Arrangements ==
    {RotateLeft(Reordered(base, p), r) :
        base \in {EXAMPLE_day23, Ascending_day23}, p \in Orders(MaxMoved), r \in 0..8}

OutsideDay23 == << varsDay20, varsDay08, varsDay11, varsDay18, varsDay16, varsDay22 >>

InitDay23 ==
    /\ labels \in Arrangements
    /\ at23 = "part_1"
    /\ turn = 0
    /\ cups = labels
    /\ current = NotRun
    /\ text1 = NotRun
    /\ circle = NotRun
    /\ IdleParse /\ IdleGrid /\ IdleTile /\ IdlePuzzle
    /\ IdleDay08 /\ IdleDay11 /\ IdleDay18 /\ IdleDay16 /\ IdleDay22

\* part_1, lines 9-25: one move
DequeMove ==
    /\ at23 = "part_1"
    /\ turn < Turns
    /\ cups' = MoveDeque(cups)
    /\ turn' = turn + 1
    /\ UNCHANGED << labels, at23, current, text1, circle >>
    /\ UNCHANGED OutsideDay23

\* part_1, lines 26-29: the String returned; then crab_cups, lines 56-71
DequeDone ==
    /\ at23 = "part_1"
    /\ turn = Turns
    /\ text1' = Returned(FinishDeque(cups))
    /\ at23' = "crab_cups"
    /\ cups' = CupsLinked(labels, TotalCups)
    /\ current' = Returned(labels[1] - Byte0)
    /\ turn' = 0
    /\ UNCHANGED << labels, circle >>
    /\ UNCHANGED OutsideDay23

\* crab_cups, lines 72-99: one turn
LinkedMove ==
    /\ at23 = "crab_cups"
    /\ turn < Turns
    /\ \E m \in {MoveLinked(cups, current.v, TotalCups)} :
        /\ cups' = m.cups
        /\ current' = Returned(m.current)
    /\ turn' = turn + 1
    /\ UNCHANGED << labels, at23, text1, circle >>
    /\ UNCHANGED OutsideDay23

\* crab_cups, line 100
LinkedDone ==
    /\ at23 = "crab_cups"
    /\ turn = Turns
    /\ circle' = Returned(cups)
    /\ at23' = "returned"
    /\ UNCHANGED << labels, turn, cups, current, text1 >>
    /\ UNCHANGED OutsideDay23

NextDay23 == DequeMove \/ DequeDone \/ LinkedMove \/ LinkedDone

SpecDay23 == InitDay23 /\ [][NextDay23]_vars

----------------------------------------------------------------------------
(* Day 23: the two implementations (SpecDay23). *)

\* C15: for every arrangement of the nine cups 1 to 9, the string part_1
\* returns after its 100 moves equals the labels read clockwise after cup 1
\* in the circle that crab_cups(input, 9, 100) returns.
C15_ImplementationsAgree ==
    at23 = "returned" => text1.v = LabelsAfterOne(circle.v)

\* The arrangement of the tests: both give "67384529" (test_part_1,
\* test_crab).
C15_Witness ==
    /\ at23 = "returned"
    /\ labels = EXAMPLE_day23
    /\ text1.v = << 54, 55, 51, 56, 52, 53, 50, 57 >>
    /\ LabelsAfterOne(circle.v) = << 54, 55, 51, 56, 52, 53, 50, 57 >>

----------------------------------------------------------------------------
(* day_18.rs: Token, Expression::evaluate, FlatRules, TimesBeforePlus *)

Plus == "Plus"
Times == "Times"
Number(num) == [t |-> "Number", num |-> num, op |-> "-"]
Operator(op) == [t |-> "Operator", num |-> 0, op |-> op]
OpenParen == [t |-> "OpenParen", num |-> 0, op |-> "-"]
CloseParen == [t |-> "CloseParen", num |-> 0, op |-> "-"]

FlatRules == "FlatRules"
TimesBeforePlus == "TimesBeforePlus"

\* FlatRules, lines 163-176: the State is the value so far
FlatRules_start(val) == val
FlatRules_evaluate(state, op, val) == IF op = Plus THEN state + val ELSE state * val
FlatRules_finish(state) == state

\* TimesBeforePlus, lines 183-196: the State is (sum, product)
TimesBeforePlus_start(val) == << val, 1 >>

\* A faulty rule that forgets the sum so far at a `*`.
TimesBeforePlus_evaluate_DropsSum(state, op, val) ==
    IF op = Plus THEN << state[1] + val, state[2] >> ELSE << val, state[2] >>

TimesBeforePlus_evaluate(state, op, val) ==
    IF op = Plus THEN << state[1] + val, state[2] >> ELSE << val, state[1] * state[2] >>
TimesBeforePlus_finish(state) == state[1] * state[2]

\* RULES::start, RULES::evaluate, RULES::finish
RULES_start(rules, val) ==
    IF rules = FlatRules THEN FlatRules_start(val) ELSE TimesBeforePlus_start(val)
RULES_evaluate(rules, state, op, val) ==
    IF rules = FlatRules THEN FlatRules_evaluate(state, op, val)
    ELSE TimesBeforePlus_evaluate(state, op, val)
RULES_finish(rules, state) ==
    IF rules = FlatRules THEN FlatRules_finish(state) ELSE TimesBeforePlus_finish(state)

\* evaluate, lines 74-112: the loop from token i (from 1) on, and lines
\* 113-117 after the last token.  `state` and `operator` are Options, the
\* stack holds pairs of them.
RECURSIVE EvaluateFrom(_, _, _, _, _, _)
EvaluateFrom(rules, toks, i, state, operator, stack) ==
    IF i > Len(toks) THEN
        IF stack # << >> THEN Err("UnclosedParens")
        ELSE IF state.some /\ ~operator.some THEN Ok(RULES_finish(rules, state.v))
        ELSE Err("UnexpectedEnd")
    ELSE
        LET tok == toks[i] IN
        CASE tok.t = "Number" ->
                IF ~state.some /\ ~operator.some
                THEN EvaluateFrom(rules, toks, i + 1,
                                  Some(RULES_start(rules, tok.num)), None, stack)
                ELSE IF state.some /\ operator.some
                THEN EvaluateFrom(rules, toks, i + 1,
                                  Some(RULES_evaluate(rules, state.v, operator.v, tok.num)),
                                  None, stack)
                ELSE Err("UnexpectedNumber")
          [] tok.t = "Operator" ->
                IF state.some /\ ~operator.some
                THEN EvaluateFrom(rules, toks, i + 1, state, Some(tok.op), stack)
                ELSE Err("UnexpectedOperator")
          [] tok.t = "OpenParen" ->
                IF state.some = operator.some
                THEN EvaluateFrom(rules, toks, i + 1, None, None,
                                  Append(stack, << state, operator >>))
                ELSE Err("UnexpectedOpenParen")
          [] tok.t = "CloseParen" ->
                IF ~(state.some /\ ~operator.some) THEN Err("UnexpectedCloseParen")
                ELSE IF stack = << >> THEN Err("UnexpectedCloseParen")
                ELSE
                    LET num == RULES_finish(rules, state.v)
                        top == stack[Len(stack)]
                        popped == SubSeq(stack, 1, Len(stack) - 1)
                    IN  IF top[1].some /\ top[2].some
                        THEN EvaluateFrom(rules, toks, i + 1,
                                          Some(RULES_evaluate(rules, top[1].v, top[2].v, num)),
                                          None, popped)
                        ELSE IF ~top[1].some /\ ~top[2].some
                        THEN EvaluateFrom(rules, toks, i + 1,
                                          Some(RULES_start(rules, num)), None, popped)
                        ELSE Err("UnexpectedCloseParen")

\* Expression::evaluate::<RULES>
evaluate(rules, toks) == EvaluateFrom(rules, toks, 1, None, None, << >>)

----------------------------------------------------------------------------
(* SpecDay18: one Expression evaluated under both rule sets.              *)

\* Expressions of up to MaxTokens tokens, and every token sequence of up to
\* MaxAnyTokens tokens.
MaxTokens == 7
MaxAnyTokens == 3
Numbers == {2, 3, 5}
Operators == {Plus, Times}
Alphabet == {Number(n) : n \in Numbers} \cup {Operator(o) : o \in Operators}
                \cup {OpenParen, CloseParen}

\* The expressions and the operands (a number or an expression in
\* parentheses) of exactly n tokens.
RECURSIVE Expressions(_), Operands(_)
Operands(n) ==
    IF n = 1 THEN {<< Number(v) >> : v \in Numbers}
    ELSE IF n < 3 THEN {}
    ELSE {<< OpenParen >> \o e \o << CloseParen >> : e \in Expressions(n - 2)}
Expressions(n) ==
    IF n < 1 THEN {}
    ELSE Operands(n) \cup
         UNION {{e \o << Operator(o) >> \o x :
                    e \in Expressions(k), o \in Operators, x \in Operands(n - 1 - k)} :
                k \in 1..(n - 2)}

TokenLists ==
    UNION {Expressions(n) : n \in 1..MaxTokens}
        \cup UNION {[1..n -> Alphabet] : n \in 0..MaxAnyTokens}

\* A token list from a text of digits, operators and parentheses (blanks
\* left out), as Expression::from_str reads the tests' one-digit numbers.
Tokenized(text) ==
    [i \in 1..Len(text) |->
        CASE text[i] = "+" -> Operator(Plus)
          [] text[i] = "*" -> Operator(Times)
          [] text[i] = "(" -> OpenParen
          [] text[i] = ")" -> CloseParen
          [] OTHER -> Number(DigitValue(text[i]))]

\* EXAMPLE1 .. EXAMPLE6 (lines 227-232)
EXAMPLE1 == Tokenized(<< "1", "+", "2", "*", "3", "+", "4", "*", "5", "+", "6" >>)
EXAMPLE2 ==
    Tokenized(<< "1", "+", "(", "2", "*", "3", ")", "+",
                 "(", "4", "*", "(", "5", "+", "6", ")", ")" >>)
EXAMPLE3 == Tokenized(<< "2", "*", "3", "+", "(", "4", "*", "5", ")" >>)
EXAMPLE4 ==
    Tokenized(<< "5", "+", "(", "8", "*", "3", "+", "9", "+", "3", "*", "4", "*", "3", ")" >>)
EXAMPLE5 ==
    Tokenized(<< "5", "*", "9", "*", "(", "7", "*", "3", "*", "3", "+", "9", "*", "3", "+",
                 "(", "8", "+", "6", "*", "4", ")", ")" >>)
EXAMPLE6 ==
    Tokenized(<< "(", "(", "2", "+", "4", "*", "9", ")", "*",
                 "(", "6", "+", "9", "*", "8", "+", "6", ")", "+", "6", ")",
                 "+", "2", "+", "4", "*", "2" >>)
Examples18 == {EXAMPLE1, EXAMPLE2, EXAMPLE3, EXAMPLE4, EXAMPLE5, EXAMPLE6}

OutsideDay18 == << varsDay20, varsDay08, varsDay11, varsDay23, varsDay16, varsDay22 >>

InitDay18 ==
    /\ tokens \in TokenLists \cup Examples18
    /\ flat = NotRun
    /\ nested = NotRun
    /\ IdleParse /\ IdleGrid /\ IdleTile /\ IdlePuzzle
    /\ IdleDay08 /\ IdleDay11 /\ IdleDay23 /\ IdleDay16 /\ IdleDay22

\* part_1, line 208: Expression::evaluate::<FlatRules>
EvaluateFlat ==
    /\ flat = NotRun
    /\ flat' = Returned(evaluate(FlatRules, tokens))
    /\ UNCHANGED << tokens, nested >>
    /\ UNCHANGED OutsideDay18

\* part_2, line 217: Expression::evaluate::<TimesBeforePlus>
EvaluateTimesBeforePlus ==
    /\ nested = NotRun
    /\ nested' = Returned(evaluate(TimesBeforePlus, tokens))
    /\ UNCHANGED << tokens, flat >>
    /\ UNCHANGED OutsideDay18

NextDay18 == EvaluateFlat \/ EvaluateTimesBeforePlus

SpecDay18 == InitDay18 /\ [][NextDay18]_vars

----------------------------------------------------------------------------
(* Day 18: operator precedence (SpecDay18). *)

\* '(' minus ')' among the tokens lo..i.
Nesting(toks, lo, i) ==
    Cardinality({j \in lo..i : toks[j].t = "OpenParen"})
        - Cardinality({j \in lo..i : toks[j].t = "CloseParen"})
\* The operators of lo..hi that stand outside every parenthesis of lo..hi.
OutsideParens(toks, lo, hi) ==
    {i \in lo..hi : toks[i].t = "Operator" /\ Nesting(toks, lo, i) = 0}
Balanced(toks, lo, hi) ==
    /\ \A i \in lo..hi : Nesting(toks, lo, i) >= 0
    /\ Nesting(toks, lo, hi) = 0

\* The tokens lo..hi are an expression: a number, an expression in
\* parentheses, or an expression, an operator and an operand.
RECURSIVE IsExpression(_, _, _)
IsExpression(toks, lo, hi) ==
    /\ lo <= hi
    /\ Balanced(toks, lo, hi)
    /\ LET outer == OutsideParens(toks, lo, hi) IN
       IF outer = {}
       THEN \/ lo = hi /\ toks[lo].t = "Number"
            \/ /\ toks[lo].t = "OpenParen" /\ toks[hi].t = "CloseParen"
               /\ IsExpression(toks, lo + 1, hi - 1)
       ELSE /\ IsExpression(toks, lo, Max(outer) - 1)
            /\ IsExpression(toks, Max(outer) + 1, hi)
WellFormed(toks) == IsExpression(toks, 1, Len(toks))

\* The value of the expression lo..hi.  "flat": the operators outside
\* parentheses from left to right, the last one last.  "sums first": every +
\* before any * of the same level, so the expression is the product of what
\* stands left and right of a * outside parentheses, and a sum only when
\* there is none.  An expression in parentheses has the value of its inside.
RECURSIVE ValueOf(_, _, _, _)
ValueOf(how, toks, lo, hi) ==
    LET outer == OutsideParens(toks, lo, hi)
        stars == {i \in outer : toks[i].op = Times}
    IN  IF outer = {} THEN
            IF lo = hi THEN toks[lo].num ELSE ValueOf(how, toks, lo + 1, hi - 1)
        ELSE IF how = "flat" THEN
            IF toks[Max(outer)].op = Plus
            THEN ValueOf(how, toks, lo, Max(outer) - 1) + ValueOf(how, toks, Max(outer) + 1, hi)
            ELSE ValueOf(how, toks, lo, Max(outer) - 1) * ValueOf(how, toks, Max(outer) + 1, hi)
        ELSE IF stars # {}
            THEN ValueOf(how, toks, lo, Min(stars) - 1) * ValueOf(how, toks, Min(stars) + 1, hi)
            ELSE ValueOf(how, toks, lo, Max(outer) - 1) + ValueOf(how, toks, Max(outer) + 1, hi)

\* C16: for every well-formed token sequence, evaluate with FlatRules
\* applies + and * from left to right with equal precedence, and with
\* TimesBeforePlus performs every + before any * of the same nesting level;
\* under both a sub-expression in parentheses is evaluated on its own and
\* used as one operand of the expression around it.
C16_OperatorPrecedence ==
    WellFormed(tokens) =>
        /\ flat # NotRun => flat = Returned(Ok(ValueOf("flat", tokens, 1, Len(tokens))))
        /\ nested # NotRun =>
                nested = Returned(Ok(ValueOf("sums first", tokens, 1, Len(tokens))))

\* EXAMPLE6, with parentheses inside parentheses: 13632 and 23340
\* (test_part_1, test_part_2).
C16_Witness ==
    /\ tokens = EXAMPLE6
    /\ WellFormed(tokens)
    /\ flat = Returned(Ok(13632))
    /\ nested = Returned(Ok(23340))

----------------------------------------------------------------------------
(* SpecGridCalls: index, index_mut, splice and transform calls on a Grid   *)
(* made by Grid::new.  A call that panics ends the run; `grid` is then the *)
(* grid as the panic left it.                                              *)

\* Grid::splice, lines 60-66, from row y on: each row is one slice of the
\* destination and one of the source, both range-checked by the Vec before
\* copy_from_slice writes.  [grid, fault]: the destination as left, and
\* whether a slice was out of range.
RECURSIVE SpliceFrom(_, _, _, _, _, _)
SpliceFrom(g, dest_pos, source, source_pos, size, y) ==
    IF y >= size[2] THEN [grid |-> g, fault |-> FALSE]
    ELSE
        LET dest_start == dest_pos[1] + g.width * (dest_pos[2] + y)
            dest_end == dest_pos[1] + size[1] + g.width * (dest_pos[2] + y)
            source_start == source_pos[1] + source.width * (source_pos[2] + y)
            source_end == source_pos[1] + size[1] + source.width * (source_pos[2] + y)
        IN  IF dest_end > Len(g.data) \/ source_end > Len(source.data)
            THEN [grid |-> g, fault |-> TRUE]
            ELSE SpliceFrom(
                    [g EXCEPT !.data =
                        [i \in 1..Len(g.data) |->
                            IF i - 1 >= dest_start /\ i - 1 < dest_end
                            THEN At(source.data, source_start + (i - 1 - dest_start))
                            ELSE g.data[i]]],
                    dest_pos, source, source_pos, size, y + 1)

\* Grid::splice, lines 36-67, with the destination as it is left.
splice_call(g, dest_pos, source, source_pos, size) ==
    IF SplicePanics(g, dest_pos, source, source_pos, size)
    THEN [grid |-> g, fault |-> TRUE]
    ELSE SpliceFrom(g, dest_pos, source, source_pos, size, 0)

\* Grid::transform, lines 69-96, with the grid as it is left: chunks_mut(0)
\* panics before anything is written, unimplemented!() after the mirrorings.
transform_call(g, mirror_x, mirror_y, transpose) ==
    IF (mirror_x # mirror_y) /\ g.width = 0 THEN [grid |-> g, fault |-> TRUE]
    ELSE
        LET d1 == IF mirror_x # mirror_y THEN ReverseRows(g.data, g.width) ELSE g.data
            d2 == IF mirror_y THEN Reverse(d1) ELSE d1
            g2 == [g EXCEPT !.data = d2]
        IN  IF ~transpose THEN [grid |-> g2, fault |-> FALSE]
            ELSE IF g.width = g.height THEN [grid |-> Transpose(g2), fault |-> FALSE]
            ELSE [grid |-> g2, fault |-> TRUE]

\* The most calls in a run.
MaxCalls == 2
\* Widths, heights and coordinates.
CallDims == 0..2
\* The values index_mut writes; the cells of the source grid are 10 .. 13.
Writes == {1}
Sources == {[data |-> << 10, 11, 12, 13 >>, width |-> 2, height |-> 2]}
Positions == CallDims \X CallDims
SourcePositions == {<< 0, 0 >>, << 0, 1 >>, << 1, 1 >>}

InitGridCalls ==
    /\ \E width \in CallDims, height \in CallDims : grid0 = Grid_new(width, height, 0)
    /\ grid = grid0
    /\ ops = << >>
    /\ IdleParse /\ IdleTile /\ IdlePuzzle /\ IdleOtherDays

\* No call has panicked and a further call is made.
CanCall == Len(ops) < MaxCalls /\ (IF ops = << >> THEN TRUE ELSE ~ops[Len(ops)].fault)

\* Index::index, lines 102-105
CallIndex ==
    /\ CanCall
    /\ \E x \in CallDims, y \in CallDims :
        ops' = Append(ops, [op |-> "index", x |-> x, y |-> y, before |-> grid,
                            fault |-> IndexPanics(grid, x, y),
                            out |-> IF IndexPanics(grid, x, y) THEN None
                                    ELSE Some(Index(grid, x, y))])
    /\ UNCHANGED << grid0, grid >>
    /\ UNCHANGED OutsideGrid

\* IndexMut::index_mut, lines 109-112, and the assignment through it
CallIndexMut ==
    /\ CanCall
    /\ \E x \in CallDims, y \in CallDims, v \in Writes :
        /\ ops' = Append(ops, [op |-> "index_mut", x |-> x, y |-> y, v |-> v, before |-> grid,
                               fault |-> IndexPanics(grid, x, y)])
        /\ grid' = IF IndexPanics(grid, x, y) THEN grid ELSE IndexSet(grid, x, y, v)
    /\ UNCHANGED grid0
    /\ UNCHANGED OutsideGrid

\* Grid::splice, lines 36-67
CallSplice ==
    /\ CanCall
    /\ \E dest_pos \in Positions, source \in Sources, source_pos \in SourcePositions,
          size \in Positions :
        \E r \in {splice_call(grid, dest_pos, source, source_pos, size)} :
            /\ ops' = Append(ops, [op |-> "splice", dest_pos |-> dest_pos, source |-> source,
                                   source_pos |-> source_pos, size |-> size,
                                   before |-> grid, fault |-> r.fault])
            /\ grid' = r.grid
    /\ UNCHANGED grid0
    /\ UNCHANGED OutsideGrid

\* Grid::transform, lines 69-96
CallTransform ==
    /\ CanCall
    /\ \E mirror_x \in BOOLEAN, mirror_y \in BOOLEAN, transpose \in BOOLEAN :
        \E r \in {transform_call(grid, mirror_x, mirror_y, transpose)} :
            /\ ops' = Append(ops, [op |-> "transform", mirror_x |-> mirror_x,
                                   mirror_y |-> mirror_y, transpose |-> transpose,
                                   before |-> grid, fault |-> r.fault])
            /\ grid' = r.grid
    /\ UNCHANGED grid0
    /\ UNCHANGED OutsideGrid

NextGridCalls == CallIndex \/ CallIndexMut \/ CallSplice \/ CallTransform

SpecGridCalls == InitGridCalls /\ [][NextGridCalls]_vars

----------------------------------------------------------------------------
(* Day 20: Grid calls (SpecGridCalls). *)

LastCall == ops[Len(ops)]
Called(op) == ops # << >> /\ LastCall.op = op

\* C21: reading or writing a Grid at [x, y] faults whenever x >= width or
\* y >= height; it never returns or overwrites the cell of a different
\* coordinate.
C21_IndexBoundsChecked ==
    (Called("index") \/ Called("index_mut")) =>
        (LastCall.x >= LastCall.before.width \/ LastCall.y >= LastCall.before.height
            => LastCall.fault)

\* What the code does: the fault is that of the Vec, when x + width * y is
\* not below data.len(); any other [x, y] reads or writes cell x + width * y.
IndexFaultsPastTheData ==
    (Called("index") \/ Called("index_mut")) =>
        /\ LastCall.fault <=>
                LastCall.x + LastCall.before.width * LastCall.y >= Len(LastCall.before.data)
        /\ LastCall.y >= LastCall.before.height => LastCall.fault
        /\ Called("index") /\ ~LastCall.fault =>
                LastCall.out =
                    Some(LastCall.before.data[LastCall.x + LastCall.before.width * LastCall.y + 1])

\* A 2 x 2 grid written at [2, 0]: no fault, and the cell at [0, 1] is changed.
C21_OtherCellWritten ==
    /\ Called("index_mut")
    /\ LastCall.before = Grid_new(2, 2, 0)
    /\ LastCall.x = 2 /\ LastCall.y = 0
    /\ ~LastCall.fault
    /\ Index(grid, 0, 1) = LastCall.v /\ LastCall.v # 0

\* The ranges of a splice call exceed the destination or the source.
Exceeds(c) ==
    \/ c.dest_pos[1] + c.size[1] > c.before.width
    \/ c.dest_pos[2] + c.size[2] > c.before.height
    \/ c.source_pos[1] + c.size[1] > c.source.width
    \/ c.source_pos[2] + c.size[2] > c.source.height
\* Cell i (from 1) of the destination lies in the target rectangle.
InTarget(c, i) ==
    LET x == (i - 1) % c.before.width
        y == (i - 1) \div c.before.width
    IN  /\ x >= c.dest_pos[1] /\ x < c.dest_pos[1] + c.size[1]
        /\ y >= c.dest_pos[2] /\ y < c.dest_pos[2] + c.size[2]

\* C22: splice faults whenever dest_pos + size exceeds the destination's
\* width or height or source_pos + size exceeds the source's, and then no
\* cell of the destination has been modified; when it does not fault, every
\* destination cell outside the target rectangle is left unchanged.
C22_SpliceBounds ==
    Called("splice") =>
        /\ Exceeds(LastCall) => LastCall.fault
        /\ LastCall.fault => grid = LastCall.before
        /\ ~LastCall.fault =>
                /\ grid.width = LastCall.before.width
                /\ grid.height = LastCall.before.height
                /\ Len(grid.data) = Len(LastCall.before.data)
                /\ \A i \in 1..Len(grid.data) :
                        ~InTarget(LastCall, i) => grid.data[i] = LastCall.before.data[i]

\* Two rows asked of a source that has one left, the destination being large
\* enough: the fault comes before the first row is copied.
C22_Witness ==
    /\ Called("splice")
    /\ LastCall.size = << 1, 2 >>
    /\ LastCall.source_pos = << 0, 1 >>
    /\ LastCall.dest_pos = << 0, 0 >>
    /\ LastCall.before.width = 2 /\ LastCall.before.height = 2
    /\ LastCall.fault
    /\ grid = LastCall.before

\* The row-by-row copy and the closed form of splice agree.
SpliceAgrees ==
    Called("splice") =>
        LET c == LastCall
            r == splice(c.before, c.dest_pos, c.source, c.source_pos, c.size)
        IN  IF c.fault THEN IsPanic(r) ELSE r = grid
TransformAgrees ==
    Called("transform") =>
        LET c == LastCall
            r == transform(c.before, c.mirror_x, c.mirror_y, c.transpose)
        IN  IF c.fault THEN IsPanic(r) ELSE r = grid

\* C26: for every Grid obtained from Grid::new followed by any sequence of
\* index_mut writes, splice calls and transform calls, data.len() equals
\* width * height.
C26_DataLenIsArea == Len(grid.data) = grid.width * grid.height

\* A write, then a splice that copies a rectangle into the written grid.
C26_Witness ==
    /\ Len(ops) = 2
    /\ ops[1].op = "index_mut" /\ ~ops[1].fault
    /\ ops[2].op = "splice" /\ ~ops[2].fault
    /\ ops[2].size = << 1, 2 >>
    /\ grid # ops[2].before
    /\ Len(grid.data) = 4

----------------------------------------------------------------------------
(* SpecMonsters: count_monsters on one canvas, one round of its loop per   *)
(* step.  grid0 is the canvas it is called with, large_grid the canvas as  *)
(* the rounds so far left it, ops the transform calls made, monsters the   *)
(* pair it returns with monster_count as it is so far.                     *)

\* The most monsters drawn on a canvas.
MaxMarks == 2
\* Canvases as wide as the motif and one wider, and two that are smaller
\* than the motif (tiles of side 3 and 2 + 19, a puzzle of one tile).
CanvasSides == {20, 21}
SmallSides == {1, 19}

\* Where the cell (X, Y) of a square of side `size` lies after symmetry o.
TurnedTo(o, size, X, Y) ==
    LET tx == IF o \div 4 = 1 THEN Y ELSE X
        ty == IF o \div 4 = 1 THEN X ELSE Y
    IN  << IF o % 2 = 1 THEN size - 1 - tx ELSE tx,
           IF (o \div 2) % 2 = 1 THEN size - 1 - ty ELSE ty >>

\* A canvas with `n` monsters, each drawn four rows below the one before and
\* turned by a symmetry `step` further than it, the first by symmetry o;
\* from the top left or down to the bottom right; `broken`: every monster
\* lacks its pixel (18, 0).
MarksOf(c) ==
    {[o |-> (c.o + k * c.step) % 8,
      x |-> IF c.low THEN c.size - 20 ELSE 0,
      y |-> 4 * k + (IF c.low THEN c.size - 3 - 4 * (c.n - 1) ELSE 0)] : k \in 0..(c.n - 1)}
CanvasPixel(c, X, Y) ==
    IF \E m \in MarksOf(c) :
            LET p == TurnedTo(m.o, c.size, X, Y)
                d == << p[1] - m.x, p[2] - m.y >>
            IN  d \in get_monster.pixels /\ ~(c.broken /\ d = << 18, 0 >>)
    THEN On ELSE Off
Canvas(c) ==
    [data |-> [i \in 1..(c.size * c.size) |-> CanvasPixel(c, (i - 1) % c.size, (i - 1) \div c.size)],
     width |-> c.size, height |-> c.size]
Canvases ==
    {Canvas([size |-> size, o |-> o, n |-> n, step |-> step, low |-> low, broken |-> broken]) :
        size \in CanvasSides, o \in 0..7, n \in 1..MaxMarks, step \in {0, 3},
        low \in BOOLEAN, broken \in BOOLEAN}
    \cup {Grid_new(size, size, Off) : size \in CanvasSides \cup SmallSides}

OutsideMonsters ==
    << varsParse, varsTile, OtherDays, grid, tiles, layout, side, frames, neighbors, placement,
       orientation, large_grid_pixels, result1, result2 >>

InitMonsters ==
    /\ grid0 \in Canvases
    /\ large_grid = grid0
    /\ ops = << >>
    /\ monsters = [count |-> 0, size |-> Cardinality(get_monster.pixels)]
    /\ pc = "loop"
    /\ grid = Idle
    /\ tiles = Idle /\ layout = Idle /\ side = Idle /\ frames = Idle /\ neighbors = Idle
    /\ placement = Idle /\ orientation = Idle /\ large_grid_pixels = Idle
    /\ result1 = Idle /\ result2 = Idle
    /\ IdleParse /\ IdleTile /\ IdleOtherDays

\* The round to run: [transpose, mirror_x, mirror_y] and the canvas after
\* its transform (line 415).
ThisRound == MonsterRounds[Len(ops) + 1]
Transformed == transform(large_grid, ThisRound[2], ThisRound[3], ThisRound[1])
\* lines 416-417: the subtractions overflow on a canvas smaller than the motif
TooSmall == large_grid.width < get_monster.width \/ large_grid.width < get_monster.height

\* A faulty round that goes on with the next orientation after a match.
RoundMatches_GoesOn ==
    /\ pc = "loop"
    /\ Len(ops) < Len(MonsterRounds)
    /\ ~IsPanic(Transformed) /\ ~TooSmall
    /\ MonstersIn(Transformed, grid0.width) > 0
    /\ large_grid' = Transformed
    /\ ops' = Append(ops, << ThisRound[2], ThisRound[3], ThisRound[1] >>)
    /\ monsters' = [monsters EXCEPT !.count = @ + MonstersIn(Transformed, grid0.width)]
    /\ pc' = IF Len(ops') = Len(MonsterRounds) THEN "return" ELSE "loop"
    /\ UNCHANGED grid0
    /\ UNCHANGED OutsideMonsters

\* lines 415-429, a round that finds the motif: break
RoundMatches ==
    /\ pc = "loop"
    /\ Len(ops) < Len(MonsterRounds)
    /\ ~IsPanic(Transformed) /\ ~TooSmall
    /\ MonstersIn(Transformed, grid0.width) > 0
    /\ large_grid' = Transformed
    /\ ops' = Append(ops, << ThisRound[2], ThisRound[3], ThisRound[1] >>)
    /\ monsters' = [monsters EXCEPT !.count = @ + MonstersIn(Transformed, grid0.width)]
    /\ pc' = "return"
    /\ UNCHANGED grid0
    /\ UNCHANGED OutsideMonsters

\* lines 415-429, a round that does not find it: the next round, or the end
\* of the loop after the last
RoundScans ==
    /\ pc = "loop"
    /\ Len(ops) < Len(MonsterRounds)
    /\ ~IsPanic(Transformed) /\ ~TooSmall
    /\ MonstersIn(Transformed, grid0.width) = 0
    /\ large_grid' = Transformed
    /\ ops' = Append(ops, << ThisRound[2], ThisRound[3], ThisRound[1] >>)
    /\ pc' = IF Len(ops') = Len(MonsterRounds) THEN "return" ELSE "loop"
    /\ UNCHANGED << grid0, monsters >>
    /\ UNCHANGED OutsideMonsters

\* A round that panics: in transform, or in the scan of a canvas smaller
\* than the motif.
RoundPanics ==
    /\ pc = "loop"
    /\ Len(ops) < Len(MonsterRounds)
    /\ IsPanic(Transformed) \/ TooSmall
    /\ pc' = "panicked"
    /\ UNCHANGED << grid0, large_grid, ops, monsters >>
    /\ UNCHANGED OutsideMonsters

\* line 430
ReturnMonsters ==
    /\ pc = "return"
    /\ pc' = "returned"
    /\ UNCHANGED << grid0, large_grid, ops, monsters >>
    /\ UNCHANGED OutsideMonsters

NextMonsters == RoundMatches \/ RoundScans \/ RoundPanics \/ ReturnMonsters

SpecMonsters == InitMonsters /\ [][NextMonsters]_vars

----------------------------------------------------------------------------
(* Day 20: the rounds of count_monsters (SpecMonsters). *)

\* The canvas after the first i transform calls, each applied to what the
\* one before left.
RECURSIVE CanvasAfter(_)
CanvasAfter(i) ==
    IF i = 0 THEN grid0
    ELSE FlipsThenTranspose(CanvasAfter(i - 1), ops[i][1], ops[i][2], ops[i][3])

\* The 8 dihedral symmetries of a canvas: every combination of the two
\* mirrorings and the transpose.
Symmetries(g) ==
    {FlipsThenTranspose(g, mirror_x, mirror_y, transpose) :
        mirror_x \in BOOLEAN, mirror_y \in BOOLEAN, transpose \in BOOLEAN}

\* C23: the eight transforms that count_monsters applies one after another,
\* each to the result of the previous one, put the canvas into eight pairwise
\* different orientations, which together are all 8 dihedral symmetries of
\* the original canvas.  (Two orientations of a canvas can be told apart when
\* no symmetry maps the canvas to itself.)
C23_EightOrientations ==
    /\ pc \in {"loop", "return", "returned"} => large_grid = CanvasAfter(Len(ops))
    /\ Len(ops) = 8 =>
        /\ {CanvasAfter(i) : i \in 1..8} = Symmetries(grid0)
        /\ Cardinality(Symmetries(grid0)) = 8 =>
                \A i, j \in 1..8 : i # j => CanvasAfter(i) # CanvasAfter(j)

\* All eight rounds were run on a canvas with eight different symmetric
\* images (a monster that lacks a pixel).
C23_Witness ==
    /\ pc = "returned"
    /\ Len(ops) = 8
    /\ Cardinality(Symmetries(grid0)) = 8
    /\ Cardinality({CanvasAfter(i) : i \in 1..8}) = 8

\* The window positions of canvas g at which every offset of the motif is On.
Matches(g) ==
    {w \in (0..(g.width - get_monster.width)) \X (0..(g.height - get_monster.height)) :
        \A d \in get_monster.pixels : g.data[(w[1] + d[1]) + g.width * (w[2] + d[2]) + 1] = On}

\* C24: count_monsters examines the orientations in sequence and stops at
\* the first one in which at least one window position matches; the count
\* returned is the number of matching positions of that orientation alone,
\* no later orientation is transformed or scanned, and the count is 0 only
\* if none of the 8 orientations contains a match.
C24_StopsAtFirstMatch ==
    pc = "returned" =>
        /\ \A i \in 1..(Len(ops) - 1) : Matches(CanvasAfter(i)) = {}
        /\ large_grid = CanvasAfter(Len(ops))
        /\ monsters.count = Cardinality(Matches(CanvasAfter(Len(ops))))
        /\ monsters.count = 0 =>
                /\ Len(ops) = 8
                /\ \A g \in Symmetries(grid0) : Matches(g) = {}
        /\ monsters.count > 0 => Matches(large_grid) # {}

\* The third orientation is the first with a match, it has one, and another
\* orientation has a match too.
C24_Witness ==
    /\ pc = "returned"
    /\ Len(ops) = 3
    /\ monsters.count = 1
    /\ Cardinality(Matches(large_grid)) = 1
    /\ \E g \in Symmetries(grid0) : g # large_grid /\ Matches(g) # {}

\* The rounds and the function as a whole agree.
RoundsAgree ==
    /\ pc = "returned" =>
            \E r \in {count_monsters(grid0)} :
                ~IsPanic(r) /\ r.count = monsters.count /\ r.size = monsters.size
                    /\ r.rounds = Len(ops) /\ r.grid = large_grid
    /\ pc = "panicked" => IsPanic(count_monsters(grid0))

----------------------------------------------------------------------------
(* SpecSearch: place_tiles and then orient_tiles as part_2 calls them, one *)
(* cell per step.  placement and orientation are the grids filled so far,  *)
(* ops the assignments made through index_mut, oldest first.               *)

\* The searches of place_tiles for the cell (x, y): lines 294-301 (row 0),
\* 304-310 (its last cell), 313-322 (column 0) and 324-331 (the others).
PlaceSearch(nb, ce, size, p, x, y) ==
    IF y = 0 /\ x < size - 1
    THEN FindAt(ce.edges, {i \in 1..Len(ce.edges) : Row0Ok(nb, p, x, ce.edges[i])})
    ELSE IF y = 0
    THEN FindAt(ce.corners, {i \in 1..Len(ce.corners) : TopRightOk(nb, p, size, ce.corners[i])})
    ELSE IF x = 0
    THEN FindAt(ce.edges \o ce.corners,
                {i \in 1..Len(ce.edges \o ce.corners) : Col0Ok(nb, p, y, (ce.edges \o ce.corners)[i])})
    ELSE FindAt(At(nb, Index(p, x - 1, y)),
                {i \in 1..Len(At(nb, Index(p, x - 1, y))) :
                    InteriorOk(nb, p, x, y, At(nb, Index(p, x - 1, y))[i])})

OutsideSearch ==
    << varsParse, varsTile, OtherDays, grid0, grid, tiles, layout, side, large_grid,
       large_grid_pixels, monsters, result1, result2 >>

\* part_2, lines 237-239, and line 289: the lists of the tiles of a cut or of the
\* test's tiles, and the empty placement.
InitSearch ==
    /\ \E ts \in {CutTiles(d) : d \in Cuts} \cup {parse(EXAMPLE).v} :
        \E fn \in {get_frames_and_neighbors(ts)} :
            /\ frames = fn.borders
            /\ neighbors = fn.neighbors
            /\ placement = Grid_new(isqrt(Len(fn.neighbors)), isqrt(Len(fn.neighbors)), 0)
    /\ orientation = NotRun
    /\ ops = << >>
    /\ pc = "place_tiles"
    /\ grid0 = Idle /\ grid = Idle
    /\ tiles = Idle /\ layout = Idle /\ side = Idle /\ large_grid = Idle
    /\ large_grid_pixels = Idle /\ monsters = Idle /\ result1 = Idle /\ result2 = Idle
    /\ IdleParse /\ IdleTile /\ IdleOtherDays

Assignment(on, x, y, v) == [op |-> "index_mut", on |-> on, x |-> x, y |-> y, v |-> v]
\* The assignments made to one of the grids.
Assigned(on) == {i \in 1..Len(ops) : ops[i].on = on}
\* The cell of the next step: both functions go through the cells row by
\* row.  (A grid of one cell: place_tiles goes on to line 304 after line 291.)
NextX(on) == IF placement.width = 0 THEN 0 ELSE Cardinality(Assigned(on)) % placement.width
NextY(on) == IF placement.width = 0 THEN 0 ELSE Cardinality(Assigned(on)) \div placement.width
PlaceDone == placement.width >= 2 /\ Cardinality(Assigned("placement")) = placement.width * placement.width
OrientDone == Cardinality(Assigned("orientation")) = placement.width * placement.width

\* line 291: placement[[0, 0]] = corners[0], a panic without a corner
PlaceCorner ==
    /\ pc = "place_tiles"
    /\ ops = << >>
    /\ LET corners == get_corners_and_edges(neighbors).corners IN
        IF corners = << >> \/ placement.width = 0
        THEN pc' = "panicked" /\ UNCHANGED << placement, ops >>
        ELSE /\ placement' = IndexSet(placement, 0, 0, corners[1])
             /\ ops' = Append(ops, Assignment("placement", 0, 0, corners[1]))
             /\ pc' = pc
    /\ UNCHANGED << frames, neighbors, orientation >>
    /\ UNCHANGED OutsideSearch

\* line 307: size - 3 overflows below size 3, in the test of the first corner
PlaceUnderflows ==
    /\ pc = "place_tiles"
    /\ ops # << >> /\ ~PlaceDone
    /\ NextY("placement") = 0 \/ placement.width = 1
    /\ NextX("placement") >= placement.width - 1
    /\ placement.width < 3
    /\ pc' = "panicked"
    /\ UNCHANGED << frames, neighbors, placement, orientation, ops >>
    /\ UNCHANGED OutsideSearch

\* A faulty step that takes the default for a missing candidate
\* (unwrap_or_default) and goes on.
PlaceFails_TakesDefault ==
    /\ pc = "place_tiles"
    /\ ops # << >> /\ ~PlaceDone
    /\ placement.width >= 3
    /\ ~PlaceSearch(neighbors, get_corners_and_edges(neighbors), placement.width, placement,
                    NextX("placement"), NextY("placement")).some
    /\ placement' = IndexSet(placement, NextX("placement"), NextY("placement"), 0)
    /\ ops' = Append(ops, Assignment("placement", NextX("placement"), NextY("placement"), 0))
    /\ UNCHANGED << pc, frames, neighbors, orientation >>
    /\ UNCHANGED OutsideSearch

\* lines 302, 310, 322, 331: unwrap() of a search that found no tile
PlaceFails ==
    /\ pc = "place_tiles"
    /\ ops # << >> /\ ~PlaceDone
    /\ placement.width >= 3
    /\ ~PlaceSearch(neighbors, get_corners_and_edges(neighbors), placement.width, placement,
                    NextX("placement"), NextY("placement")).some
    /\ pc' = "panicked"
    /\ UNCHANGED << frames, neighbors, placement, orientation, ops >>
    /\ UNCHANGED OutsideSearch

\* lines 294-331: the tile found is assigned to the cell
PlaceStep ==
    /\ pc = "place_tiles"
    /\ ops # << >> /\ ~PlaceDone
    /\ placement.width >= 3
    /\ \E hit \in {PlaceSearch(neighbors, get_corners_and_edges(neighbors), placement.width,
                               placement, NextX("placement"), NextY("placement"))} :
        /\ hit.some
        /\ placement' = IndexSet(placement, NextX("placement"), NextY("placement"), hit.v)
        /\ ops' = Append(ops, Assignment("placement", NextX("placement"), NextY("placement"), hit.v))
    /\ UNCHANGED << pc, frames, neighbors, orientation >>
    /\ UNCHANGED OutsideSearch

\* line 334, and lines 338-339 of orient_tiles
PlaceReturns ==
    /\ pc = "place_tiles"
    /\ PlaceDone
    /\ pc' = "orient_tiles"
    /\ orientation' = Grid_new(placement.width, placement.width, 0)
    /\ UNCHANGED << frames, neighbors, placement, ops >>
    /\ UNCHANGED OutsideSearch

\* line 365: unwrap() of a search that found no orientation code
OrientFails ==
    /\ pc = "orient_tiles"
    /\ ~OrientDone
    /\ ~OrientFind(placement, frames, NextX("orientation"), NextY("orientation")).some
    /\ pc' = "panicked"
    /\ UNCHANGED << frames, neighbors, placement, orientation, ops >>
    /\ UNCHANGED OutsideSearch

\* lines 353-365: the code found is assigned to the cell
OrientStep ==
    /\ pc = "orient_tiles"
    /\ ~OrientDone
    /\ \E hit \in {OrientFind(placement, frames, NextX("orientation"), NextY("orientation"))} :
        /\ hit.some
        /\ orientation' = IndexSet(orientation, NextX("orientation"), NextY("orientation"), hit.v)
        /\ ops' = Append(ops, Assignment("orientation", NextX("orientation"),
                                         NextY("orientation"), hit.v))
    /\ UNCHANGED << pc, frames, neighbors, placement >>
    /\ UNCHANGED OutsideSearch

\* line 368
OrientReturns ==
    /\ pc = "orient_tiles"
    /\ OrientDone
    /\ pc' = "returned"
    /\ UNCHANGED << frames, neighbors, placement, orientation, ops >>
    /\ UNCHANGED OutsideSearch

NextSearch ==
    \/ PlaceCorner \/ PlaceUnderflows \/ PlaceFails \/ PlaceStep \/ PlaceReturns
    \/ OrientFails \/ OrientStep \/ OrientReturns

SpecSearch == InitSearch /\ [][NextSearch]_vars

----------------------------------------------------------------------------
(* Day 20: the searches of place_tiles and orient_tiles (SpecSearch). *)

\* The search of the step about to run finds no tile, or no orientation code.
SearchEmpty ==
    \/ /\ pc = "place_tiles" /\ ops # << >> /\ ~PlaceDone /\ placement.width >= 3
       /\ PlaceSearch(neighbors, get_corners_and_edges(neighbors), placement.width, placement,
                      NextX("placement"), NextY("placement")) = None
    \/ /\ pc = "orient_tiles" /\ ~OrientDone
       /\ \A ix \in 0..7 : ~OrientOk(placement, frames, NextX("orientation"), NextY("orientation"), ix)

\* The grid an assignment was made to.
GridOf(a) == IF a.on = "placement" THEN placement ELSE orientation

\* No cell was assigned twice, and every cell assigned holds what it was
\* assigned.
AssignedOnce ==
    /\ \A i, j \in 1..Len(ops) :
            i # j /\ ops[i].on = ops[j].on => << ops[i].x, ops[i].y >> # << ops[j].x, ops[j].y >>
    /\ \A i \in 1..Len(ops) :
            GridOf(ops[i]).data[ops[i].x + placement.width * ops[i].y + 1] = ops[i].v

\* Every cell of the grid has been assigned.
AllAssigned(on) ==
    \A x \in 0..(placement.width - 1), y \in 0..(placement.width - 1) :
        \E i \in Assigned(on) : ops[i].x = x /\ ops[i].y = y

\* A step: the assignments made stay as they are and at most one is added;
\* a search without a candidate is a fault at once, with both grids as they
\* were.
SearchStep ==
    /\ Len(ops') <= Len(ops) + 1
    /\ \A i \in 1..Len(ops) : ops'[i] = ops[i]
    /\ SearchEmpty => pc' = "panicked" /\ ops' = ops /\ placement' = placement
                        /\ orientation' = orientation

\* C25: place_tiles and orient_tiles never retry or backtrack; at the first
\* step whose search finds no candidate tile or orientation code they fault
\* immediately, and whenever they return, every cell of the returned grid was
\* assigned by a successful search (none is left at its default value).
C25_SearchesNeverBacktrack ==
    /\ [](AssignedOnce)
    /\ [](pc \in {"orient_tiles", "returned"} => AllAssigned("placement"))
    /\ [](pc = "returned" => AllAssigned("orientation"))
    /\ [][SearchStep]_vars

\* place_tiles has faulted in its first row, after two assignments or more:
\* the cell after the last one assigned has no candidate.
C25_Witness ==
    /\ pc = "panicked"
    /\ orientation = NotRun
    /\ placement.width >= 3
    /\ Cardinality(Assigned("placement")) >= 2
    /\ ~PlaceSearch(neighbors, get_corners_and_edges(neighbors), placement.width, placement,
                    NextX("placement"), NextY("placement")).some
    /\ AssignedOnce


----------------------------------------------------------------------------
(* Day 16 (day_16.rs): ValueRange and collapse_overlapping_ranges.  A        *)
(* ValueRange is [low, high], both u16; from_str (lines 73-83) parses the   *)
(* two numbers and does not compare them.                                   *)

U16Max == 65535

ValueRange(low, high) == [low |-> low, high |-> high]

\* ValueRange::contains, lines 46-48
contains(self, value) == self.low <= value /\ value <= self.high

\* `high + 1` on u16, line 40: past U16Max a debug build panics and a release
\* build wraps to 0.
PlusOneOverflows(high) == high = U16Max
PlusOneWrapped(high) == (high + 1) % (U16Max + 1)

\* ValueRange::try_merge, lines 39-44, with wrapping arithmetic.  `&&` does
\* not evaluate its right side when the left side is false.
try_merge(self, other) ==
    IF PlusOneWrapped(self.high) >= other.low /\ PlusOneWrapped(other.high) >= self.low
    THEN Some(ValueRange(Min({self.low, other.low}), Max({self.high, other.high})))
    ELSE None

\* An addition try_merge(self, other) evaluates overflows.
try_merge_overflows(self, other) ==
    \/ PlusOneOverflows(self.high)
    \/ PlusOneWrapped(self.high) >= other.low /\ PlusOneOverflows(other.high)

\* #[derive(PartialOrd, Ord)] on ValueRange, line 32: by low, then by high.
RangeLess(a, b) == a.low < b.low \/ (a.low = b.low /\ a.high < b.high)

RECURSIVE InsertRange(_, _)
InsertRange(sorted, rng) ==
    IF sorted = << >> THEN << rng >>
    ELSE IF RangeLess(rng, Head(sorted)) THEN << rng >> \o sorted
    ELSE << Head(sorted) >> \o InsertRange(Tail(sorted), rng)

\* ranges.sort_unstable(), line 51
RECURSIVE sort_unstable(_)
sort_unstable(list) ==
    IF list = << >> THEN << >> ELSE InsertRange(sort_unstable(Tail(list)), Head(list))

\* The retain_mut closure over the sorted list from element i on (lines 53-66),
\* followed by the push of line 67-69.  kept holds the elements retained so
\* far: a retained element has been overwritten with the previous `prev`.
RECURSIVE RetainFrom(_, _, _, _)
RetainFrom(sorted, i, prev_opt, kept) ==
    IF i > Len(sorted)
    THEN IF prev_opt.some THEN [panic |-> FALSE, v |-> Append(kept, prev_opt.v)]
         ELSE [panic |-> FALSE, v |-> kept]
    ELSE IF ~prev_opt.some THEN RetainFrom(sorted, i + 1, Some(sorted[i]), kept)
    ELSE IF try_merge(prev_opt.v, sorted[i]).some
    THEN RetainFrom(sorted, i + 1, try_merge(prev_opt.v, sorted[i]), kept)
    ELSE RetainFrom(sorted, i + 1, Some(sorted[i]), Append(kept, prev_opt.v))

\* Some call of try_merge made by the loop overflows.
RECURSIVE OverflowsFrom(_, _, _)
OverflowsFrom(sorted, i, prev_opt) ==
    IF i > Len(sorted) THEN FALSE
    ELSE IF ~prev_opt.some THEN OverflowsFrom(sorted, i + 1, Some(sorted[i]))
    ELSE IF try_merge_overflows(prev_opt.v, sorted[i]) THEN TRUE
    ELSE IF try_merge(prev_opt.v, sorted[i]).some
    THEN OverflowsFrom(sorted, i + 1, try_merge(prev_opt.v, sorted[i]))
    ELSE OverflowsFrom(sorted, i + 1, Some(sorted[i]))

\* ValueRange::collapse_overlapping_ranges, lines 50-70, in a build that wraps
collapse_overlapping_ranges(list) == RetainFrom(sort_unstable(list), 1, None, << >>).v

collapse_overflows(list) == OverflowsFrom(sort_unstable(list), 1, None)

----------------------------------------------------------------------------
(* SpecDay16: one call of collapse_overlapping_ranges on a list of ranges. *)

MaxRanges == 3
\* Bounds a range is drawn from: small ones, and the largest u16.
RangeBounds == {0, 1, 2, 3, U16Max}
Ranges16 == {ValueRange(low, high) : low \in RangeBounds, high \in RangeBounds}
RangeLists == UNION {[1..n -> Ranges16] : n \in 0..MaxRanges}

\* The ranges of EXAMPLE1's fields, as test_collapse_overlapping_ranges and
\* part_1 collect them (lines 339-343).
EXAMPLE1_ranges ==
    << ValueRange(1, 3), ValueRange(5, 7), ValueRange(6, 11), ValueRange(33, 44),
       ValueRange(13, 40), ValueRange(45, 50) >>

OutsideDay16 == << varsDay20, varsDay08, varsDay11, varsDay23, varsDay18, varsDay22 >>

InitDay16 ==
    /\ given_ranges \in RangeLists \cup {EXAMPLE1_ranges}
    /\ ranges = NotRun
    /\ IdleParse /\ IdleGrid /\ IdleTile /\ IdlePuzzle
    /\ IdleDay08 /\ IdleDay11 /\ IdleDay23 /\ IdleDay18 /\ IdleDay22

\* The call when no addition overflows.
Collapse ==
    /\ ranges = NotRun
    /\ ~collapse_overflows(given_ranges)
    /\ ranges' = Returned(collapse_overlapping_ranges(given_ranges))
    /\ UNCHANGED given_ranges
    /\ UNCHANGED OutsideDay16

\* The call in a debug build when `high + 1` overflows: try_merge panics.
CollapseOverflowPanics ==
    /\ ranges = NotRun
    /\ collapse_overflows(given_ranges)
    /\ ranges' = Panic
    /\ UNCHANGED given_ranges
    /\ UNCHANGED OutsideDay16

\* The call in a release build when `high + 1` overflows: the sum wraps to 0.
CollapseOverflowWraps ==
    /\ ranges = NotRun
    /\ collapse_overflows(given_ranges)
    /\ ranges' = Returned(collapse_overlapping_ranges(given_ranges))
    /\ UNCHANGED given_ranges
    /\ UNCHANGED OutsideDay16

NextDay16 == Collapse \/ CollapseOverflowPanics \/ CollapseOverflowWraps

SpecDay16 == InitDay16 /\ [][NextDay16]_vars

----------------------------------------------------------------------------
(* Day 16: what collapse_overlapping_ranges leaves in the Vec. *)

Collapsed == ranges # NotRun /\ ranges # Panic

\* The values at which membership in some range of the list can change: the
\* ends of every range and their neighbours.  Between two consecutive ones
\* no range starts or stops.
Landmarks(list) ==
    UNION {{list[i].low - 1, list[i].low, list[i].high, list[i].high + 1} : i \in 1..Len(list)}
        \cap (0..U16Max)

Covers(list, value) == \E i \in 1..Len(list) : contains(list[i], value)

SameValues(a, b) ==
    \A value \in Landmarks(a) \cup Landmarks(b) : Covers(a, value) <=> Covers(b, value)

SortedByLow(list) == \A i \in 1..(Len(list) - 1) : list[i].low <= list[i + 1].low

Apart(list) == \A i \in 1..(Len(list) - 1) : list[i + 1].low > list[i].high + 1

LowFirst(list) == \A i \in 1..Len(list) : list[i].low <= list[i].high

\* C27: collapse_overlapping_ranges replaces any list of ranges by a list that
\* is sorted by low bound, in which each range's low is greater than the
\* previous range's high + 1, and that holds exactly the values of the
\* original list.
C27_CollapsedRanges ==
    ranges # NotRun =>
        /\ ranges # Panic
        /\ SortedByLow(ranges.v)
        /\ Apart(ranges.v)
        /\ SameValues(ranges.v, given_ranges)

\* The same for the lists the puzzle's fields give: every range has
\* low <= high, and no range reaches the largest u16.
CollapsedWhenWellFormed ==
    (ranges # NotRun /\ LowFirst(given_ranges)
        /\ \A i \in 1..Len(given_ranges) : given_ranges[i].high < U16Max) =>
        /\ ranges # Panic
        /\ SortedByLow(ranges.v)
        /\ Apart(ranges.v)
        /\ SameValues(ranges.v, given_ranges)

\* The test's list collapses to what test_collapse_overlapping_ranges expects.
ExampleCollapsed ==
    (ranges # NotRun /\ given_ranges = EXAMPLE1_ranges) =>
        ranges = Returned(<< ValueRange(1, 3), ValueRange(5, 11), ValueRange(13, 50) >>)

----------------------------------------------------------------------------
(* Day 22 (day_22.rs): the card game.  A State is the two decks, each a     *)
(* VecDeque<u16> modelled as a sequence with the top card first.            *)

Player1 == "Player1"
Player2 == "Player2"

State(player1, player2) == [player1 |-> player1, player2 |-> player2]

\* State::deal, lines 28-34: None when player2 is empty, and None by the `?`
\* when player1 is empty, before anything is popped from player2.
deal(self) ==
    IF self.player2 = << >> THEN None
    ELSE IF self.player1 = << >> THEN None
    ELSE Some([card1 |-> Head(self.player1), card2 |-> Head(self.player2),
               self |-> State(Tail(self.player1), Tail(self.player2))])

keep_both_Card1First(self, player, card1, card2) ==
    IF player = Player1
    THEN State(self.player1 \o << card1, card2 >>, self.player2)
    ELSE State(self.player1, self.player2 \o << card1, card2 >>)

\* State::keep_both, lines 36-47
keep_both(self, player, card1, card2) ==
    IF player = Player1
    THEN State(self.player1 \o << card1, card2 >>, self.player2)
    ELSE State(self.player1, self.player2 \o << card2, card1 >>)

\* The winner of a round decided by the cards, lines 50-54 and 101-105
HigherCard(card1, card2) == IF card1 > card2 THEN Player1 ELSE Player2

\* What both games return after their loop, lines 58-62 and 110-114
LoopWinner(self) == IF self.player2 = << >> THEN Player1 ELSE Player2

\* Lines 78-83 (and 84-89): the first `size` cards of a deque that as_slices
\* hands out as the two slices xs and ys.
TakeAcross(xs, ys, size) ==
    IF size <= Len(xs) THEN SubSeq(xs, 1, size)
    ELSE xs \o SubSeq(ys, 1, size - Len(xs))

\* State::make_subgame, lines 65-91.  split1 and split2 are the lengths of
\* the first slices of the two deques, which depend on where the ring
\* buffers wrap.
make_subgame(self, size1, size2, split1, split2) ==
    IF size1 > Len(self.player1) \/ size2 > Len(self.player2) THEN None
    ELSE Some(State(
        TakeAcross(SubSeq(self.player1, 1, split1),
                   SubSeq(self.player1, split1 + 1, Len(self.player1)), size1),
        TakeAcross(SubSeq(self.player2, 1, split2),
                   SubSeq(self.player2, split2 + 1, Len(self.player2)), size2)))

----------------------------------------------------------------------------
(* SpecDay22: part_1 (play_simple_game) or part_2 (play_recursive_game) on  *)
(* one deal, a round of the loop per step.  games is the call stack of      *)
(* play_recursive_game: each entry is a game with its seen_rounds, the two  *)
(* cards it has dealt while its sub-game is played, and the winner it is     *)
(* about to return.  Three fields are ghosts: start is the State the game   *)
(* began with, before the State its last round began with (none before the  *)
(* first round), and after_rounds the State after each round of a recursive *)
(* game.                                                                    *)

MaxCard == 5
MaxRepeated == 3
RepeatedCards == 0..2

\* Deals of distinct cards 1..MaxCard: any of them, in any order, cut anywhere.
DistinctDeals ==
    {State(SubSeq(s, 1, k), SubSeq(s, k + 1, Len(s))) :
        << s, k >> \in UNION {{<< s, k >> : k \in 0..n,
            s \in {t \in [1..n -> 1..MaxCard] : \A i, j \in 1..n : t[i] = t[j] => i = j}} :
                n \in 0..MaxCard}}

\* Deals of up to MaxRepeated cards in which a card may come twice or be 0.
RepeatedDeals ==
    {State(SubSeq(s, 1, k), SubSeq(s, k + 1, Len(s))) :
        << s, k >> \in UNION {{<< s, k >> : k \in 0..n, s \in [1..n -> RepeatedCards]} :
            n \in 0..MaxRepeated}}

\* EXAMPLE of the tests, lines 180-194, as test_parse reads it
EXAMPLE22 == State(<< 9, 2, 6, 3, 1 >>, << 5, 8, 4, 7, 10 >>)

Deals == DistinctDeals \cup RepeatedDeals \cup {EXAMPLE22}

NoWinner == "none"

Game(self) ==
    [self |-> self, seen_rounds |-> {}, dealt |-> << >>, returns |-> NoWinner,
     start |-> self, before |-> << >>, after_rounds |-> << >>]

Depth == Len(games)
Top == games[Depth]
ReplaceTop(game) == [games EXCEPT ![Depth] = game]

OutsideDay22 == << varsDay20, varsDay08, varsDay11, varsDay23, varsDay18, varsDay16 >>

\* part_1 / part_2, lines 157-169: the game is a clone of initial_state.
InitDay22 ==
    /\ initial_state \in Deals
    /\ played \in {"simple", "recursive"}
    /\ games = << Game(initial_state) >>
    /\ at22 = "playing"
    /\ winner = NotRun
    /\ IdleParse /\ IdleGrid /\ IdleTile /\ IdlePuzzle
    /\ IdleDay08 /\ IdleDay11 /\ IdleDay23 /\ IdleDay18 /\ IdleDay16

Playing(which) == at22 = "playing" /\ played = which /\ Top.returns = NoWinner

\* play_simple_game, lines 50-56: one round of the loop
SimpleRound ==
    /\ Playing("simple")
    /\ deal(Top.self).some
    /\ \E d \in {deal(Top.self).v} :
        \E kept \in {keep_both(d.self, HigherCard(d.card1, d.card2), d.card1, d.card2)} :
            games' = ReplaceTop([Top EXCEPT !.self = kept, !.before = << Top.self >>])
    /\ UNCHANGED << initial_state, played, at22, winner >>
    /\ UNCHANGED OutsideDay22

\* play_simple_game, lines 57-62: deal gives None and the function returns
SimpleReturns ==
    /\ Playing("simple")
    /\ ~deal(Top.self).some
    /\ at22' = "returned"
    /\ winner' = Returned(LoopWinner(Top.self))
    /\ UNCHANGED << initial_state, played, games >>
    /\ UNCHANGED OutsideDay22

RoundEnd_RepeatToPlayer2(game, self, player, card1, card2) ==
    LET kept == keep_both(self, player, card1, card2)
        ended == [game EXCEPT !.self = kept, !.dealt = << >>,
                              !.after_rounds = Append(game.after_rounds, kept),
                              !.before = << State(<< card1 >> \o self.player1,
                                                  << card2 >> \o self.player2) >>]
    IN  IF kept \in game.seen_rounds
        THEN [ended EXCEPT !.returns = Player2]
        ELSE [ended EXCEPT !.seen_rounds = game.seen_rounds \cup {kept}]

\* play_recursive_game, lines 106-109, after the round's winner is known:
\* the cards are kept, and a State seen before makes the game return Player1.
RoundEnd(game, self, player, card1, card2) ==
    LET kept == keep_both(self, player, card1, card2)
        ended == [game EXCEPT !.self = kept, !.dealt = << >>,
                              !.after_rounds = Append(game.after_rounds, kept),
                              !.before = << State(<< card1 >> \o self.player1,
                                                  << card2 >> \o self.player2) >>]
    IN  IF kept \in game.seen_rounds
        THEN [ended EXCEPT !.returns = Player1]
        ELSE [ended EXCEPT !.seen_rounds = game.seen_rounds \cup {kept}]

\* play_recursive_game, lines 95-109: a round with no sub-game
RoundCompares ==
    /\ Playing("recursive")
    /\ deal(Top.self).some
    /\ \E d \in {deal(Top.self).v} :
        /\ ~make_subgame(d.self, d.card1, d.card2, 0, 0).some
        /\ games' = ReplaceTop(
               RoundEnd(Top, d.self, HigherCard(d.card1, d.card2), d.card1, d.card2))
    /\ UNCHANGED << initial_state, played, at22, winner >>
    /\ UNCHANGED OutsideDay22

\* play_recursive_game, lines 95-98: a round that starts a sub-game
RoundRecurses ==
    /\ Playing("recursive")
    /\ deal(Top.self).some
    /\ \E d \in {deal(Top.self).v} :
        \E split1 \in 0..Len(d.self.player1), split2 \in 0..Len(d.self.player2) :
            /\ make_subgame(d.self, d.card1, d.card2, split1, split2).some
            /\ games' = Append(
                   ReplaceTop([Top EXCEPT !.self = d.self, !.dealt = << d.card1, d.card2 >>]),
                   Game(make_subgame(d.self, d.card1, d.card2, split1, split2).v))
    /\ UNCHANGED << initial_state, played, at22, winner >>
    /\ UNCHANGED OutsideDay22

\* play_recursive_game, lines 110-114: deal gives None and the loop is left
LoopEnds ==
    /\ Playing("recursive")
    /\ ~deal(Top.self).some
    /\ games' = ReplaceTop([Top EXCEPT !.returns = LoopWinner(Top.self)])
    /\ UNCHANGED << initial_state, played, at22, winner >>
    /\ UNCHANGED OutsideDay22

\* Lines 98 and 106-109: a sub-game returns its winner to the round that
\* started it.
SubgameReturns ==
    /\ at22 = "playing" /\ played = "recursive"
    /\ Top.returns # NoWinner
    /\ Depth > 1
    /\ \E parent \in {games[Depth - 1]} :
        games' = [SubSeq(games, 1, Depth - 1) EXCEPT ![Depth - 1] =
            RoundEnd(parent, parent.self, Top.returns, parent.dealt[1], parent.dealt[2])]
    /\ UNCHANGED << initial_state, played, at22, winner >>
    /\ UNCHANGED OutsideDay22

\* part_2, line 167: the outermost game returns
RecursiveReturns ==
    /\ at22 = "playing" /\ played = "recursive"
    /\ Top.returns # NoWinner
    /\ Depth = 1
    /\ at22' = "returned"
    /\ winner' = Returned(Top.returns)
    /\ UNCHANGED << initial_state, played, games >>
    /\ UNCHANGED OutsideDay22

NextDay22 ==
    \/ SimpleRound
    \/ SimpleReturns
    \/ RoundCompares
    \/ RoundRecurses
    \/ LoopEnds
    \/ SubgameReturns
    \/ RecursiveReturns

SpecDay22 == InitDay22 /\ [][NextDay22]_vars

\* Both functions are plain loops: a round that can be played is played.
SpecDay22Fair == SpecDay22 /\ WF_vars(NextDay22)

----------------------------------------------------------------------------
(* Day 22: termination and the cards of a game. *)

Distinct(self) ==
    \A i, j \in 1..Len(self.player1 \o self.player2) :
        (self.player1 \o self.player2)[i] = (self.player1 \o self.player2)[j] => i = j

\* How many times a card is in a sequence
RECURSIVE Times22(_, _)
Times22(cards, card) ==
    IF cards = << >> THEN 0
    ELSE Times22(Tail(cards), card) + (IF Head(cards) = card THEN 1 ELSE 0)

SameCards(a, b) ==
    /\ Len(a) = Len(b)
    /\ \A i \in 1..Len(a) : Times22(a, a[i]) = Times22(b, a[i])

\* The cards the two players of a game hold: the decks and the two cards on
\* the table while a sub-game is played.
Held(game) == game.dealt \o game.self.player1 \o game.self.player2

\* The State a game is in: its decks, with the two cards on the table back
\* on top while a sub-game is played.
Current(game) ==
    IF game.dealt = << >> THEN game.self
    ELSE State(<< game.dealt[1] >> \o game.self.player1,
               << game.dealt[2] >> \o game.self.player2)

SimpleWinnerHoldsAll ==
    /\ winner # NotRun
    /\ \/ Top.self.player2 = << >> /\ winner.v = Player1
       \/ Top.self.player1 = << >> /\ winner.v = Player2

\* C29: play_simple_game terminates on every two decks of pairwise distinct
\* cards, in a state where one deck is empty, and returns the other player.
C29_SimpleGameTerminates ==
    (played = "simple" /\ Distinct(initial_state)) ~>
        (at22 = "returned" /\ SimpleWinnerHoldsAll)

\* What holds of play_simple_game on distinct cards when it does return.
SimpleGameReturnsWinner ==
    (played = "simple" /\ Distinct(initial_state) /\ at22 = "returned") => SimpleWinnerHoldsAll

\* A simple game that is back in a State it was in before: it plays for ever.
SimpleGameRepeats ==
    /\ played = "simple" /\ Distinct(initial_state)
    /\ Top.before # << >>
    /\ Top.self = Top.start

\* A game whose State after a round is the State after an earlier round of the
\* same game has played no round since and returns Player1.
RepeatEnds(game) ==
    \A i, j \in 1..Len(game.after_rounds) :
        (i < j /\ game.after_rounds[i] = game.after_rounds[j]) =>
            /\ j = Len(game.after_rounds)
            /\ game.returns = Player1

\* A sub-game starts with fewer cards than the game that started it holds.
SubgamesSmaller ==
    \A i \in 2..Depth :
        Len(games[i].start.player1) + Len(games[i].start.player2) < Len(Held(games[i - 1]))

\* C28: play_recursive_game terminates on every two decks; a game whose State
\* after a round equals its State after an earlier round returns Player1 at
\* once; every sub-game starts with fewer cards than its parent game holds.
C28_RecursiveGameTerminates ==
    /\ (played = "recursive") ~> (at22 = "returned")
    /\ [](played = "recursive" => \A i \in 1..Depth : RepeatEnds(games[i]))
    /\ [](played = "recursive" => SubgamesSmaller)

\* A game two levels below the outermost one is being played.
C28_WitnessNested == played = "recursive" /\ Depth >= 3

\* The outermost game has returned Player1 because a State came back, with
\* cards left in both decks.
C28_Witness ==
    /\ played = "recursive" /\ at22 = "returned"
    /\ winner = Returned(Player1)
    /\ Top.self.player2 # << >>
    /\ \E i \in 1..(Len(Top.after_rounds) - 1) :
        Top.after_rounds[i] = Top.after_rounds[Len(Top.after_rounds)]

\* One round: the top card of each deck is gone and both cards are at the
\* bottom of one deck, the card of that deck's player first.
RoundOf(b, a) ==
    /\ b.player1 # << >> /\ b.player2 # << >>
    /\ \/ /\ a.player1 = Tail(b.player1) \o << Head(b.player1), Head(b.player2) >>
          /\ a.player2 = Tail(b.player2)
       \/ /\ a.player1 = Tail(b.player1)
          /\ a.player2 = Tail(b.player2) \o << Head(b.player2), Head(b.player1) >>

RoundsKeepCards(game) ==
    /\ game.before # << >> => RoundOf(game.before[1], Current(game))
    /\ SameCards(Held(game), game.start.player1 \o game.start.player2)
    /\ \A i \in 1..Len(game.after_rounds) :
        SameCards(game.after_rounds[i].player1 \o game.after_rounds[i].player2,
                  game.start.player1 \o game.start.player2)

\* The games below the one being played are as they were.
ParentsUntouched ==
    \A i \in 1..(Min({Depth, Len(games')}) - 1) : games'[i] = games[i]

\* C30: in both games every round removes the top card of each deck and
\* appends both to the bottom of the round winner's deck, the winner's own
\* card first, so a game holds the same multiset of cards after every round
\* as at its start; a sub-game leaves its parent's decks unchanged; deal
\* removes no card when a deck is empty.
C30_CardsConserved ==
    /\ [](\A i \in 1..Depth : RoundsKeepCards(games[i]))
    /\ [][ParentsUntouched]_vars

\* A game has gone on after a sub-game of three or more cards returned to it.
C30_Witness ==
    /\ played = "recursive" /\ Depth = 1
    /\ Len(Top.after_rounds) >= 2
    /\ Top.returns = NoWinner
    /\ Len(Top.before[1].player1) > Head(Top.before[1].player1) + 1
    /\ Len(Top.before[1].player2) > Head(Top.before[1].player2)
    /\ Head(Top.before[1].player1) + Head(Top.before[1].player2) >= 3
====
